---- MODULE Spec2Model ----
(***************************************************************************)
(* Catalog synchronisation layer of the bowl builder                       *)
(* (src/src/services/toeat-api.ts): the token cache, authenticateWithToeat,*)
(* fetchWithRetry, the three fetchers and loadProductsFromToeat.           *)
(*                                                                         *)
(* JavaScript runs one handler at a time: an action below is one handler   *)
(* run to its next suspension (a network answer or a timer), including     *)
(* every continuation that resumes synchronously after it.                 *)
(***************************************************************************)
EXTENDS Integers, Sequences, FiniteSets, TLC

\* ------------------------------------------------------------ constants

\* fetchWithRetry's default parameters.
DefaultMaxRetries == 3
DefaultBaseDelay == 1000
\* authenticateWithToeat: (data.expires_in - 300) * 1000.
ExpiryBufferSeconds == 300
MsPerSecond == 1000
\* parseInt(response.headers.get("Retry-After") || "60").
DefaultRetryAfter == 60
\* ToteatError's optional members when they are left undefined.
NoStatus == 0
NoRetryAfter == 0
\* cachedToken = null; access tokens are non-empty strings (truthy), here
\* the positive numbers.
NoToken == 0
\* tokenExpiry = null; Date.now() is positive.
NoExpiry == 0

\* ------------------------------------------------------------ bounds

\* Largest maxRetries the stand-alone executor is run with.
MaxAttemptsBound == 4
\* Clock ticks the model lets pass, and the length of a tick in ms.
MaxTicks == 2
TickMs == 100 * MsPerSecond
\* Calls of loadProductsFromToeat in one behaviour.
MaxStarts == 2

\* Longest remote list the mapper is called with on its own.
MaxListLen == 3

\* Most add-ons the model selects at the same time in the bowl builder.
MaxSelected == 2

\* The load cycles that may be live at the same time, and the one that
\* runs when the scheduler starts one cycle at a time.
Cycles == {"c1", "c2"}
Solo == {"c1"}
\* The four operations a cycle runs through fetchWithRetry.
Ops == {"auth", "shift", "inv", "prod"}
\* baseDelay values the stand-alone executor is run with.
BaseDelays == {DefaultBaseDelay, 250}
\* HTTP status codes of failed answers: bad request, unauthorized, not
\* found, rate limit, server error.
FailStatuses == {400, 401, 404, 429, 500}
\* Retry-After header values of a 429 answer (NoRetryAfter: header absent).
RetryAfterHeaders == {NoRetryAfter, 5}
\* What the provider may answer in a behaviour.  "full": one load cycle at a
\* time; "lean": overlapping load cycles, with fewer kinds of answers.
\* Failed answers of POST /auth/token:
AuthFailStatuses(env) ==
    IF env = "full" THEN {401, 500} ELSE {401}
\* failed answers of the three GET requests, and their Retry-After headers:
FetchFailStatuses(env) ==
    IF env = "full" THEN {401, 429} ELSE {}
FetchRetryAfterHeaders(env) ==
    IF env = "full" THEN {NoRetryAfter} ELSE {}
\* token lifetimes (expires_in, seconds):
ExpiresInChoices(env) ==
    IF env = "full" THEN {200, 300, 500} ELSE {300, 500}
\* Date.now() of the initial state, in ms.
StartTime == 1000000

VARIABLES
    cachedToken,    \* module variable cachedToken (NoToken: null)
    tokenExpiry,    \* module variable tokenExpiry, ms (NoExpiry: null)
    credentials,    \* API_CONFIG.clientId and API_CONFIG.clientSecret both set
    now,            \* Date.now(), ms
    cycle,          \* per load cycle: the frame of loadProductsFromToeat
    loop,           \* per load cycle and operation: the frame of fetchWithRetry
    exec,           \* a stand-alone fetchWithRetry frame with arbitrary parameters
    issued,         \* access tokens the provider has issued so far
    lastResponse,   \* the provider's latest successful /auth/token answer
    started,        \* calls of loadProductsFromToeat so far
    mapper,         \* calls of mapToeatProductsToBowlBuilder on their own
    builder         \* the state of the BowlBuilder component

vars == <<cachedToken, tokenExpiry, credentials, now, cycle, loop, exec,
          issued, lastResponse, started, mapper, builder>>

\* ------------------------------------------------------------ errors

\* new ToteatError(message, status, retryAfter); id is the object's identity
\* (the invocation of the operation that created it).
ToteatError(msg, status, retryAfter, id) ==
    [msg |-> msg, status |-> status, retryAfter |-> retryAfter, id |-> id]

\* let lastError: Error | undefined
Undefined == ToteatError("undefined", NoStatus, NoRetryAfter, 0)

\* ------------------------------------------------------------ fetchWithRetry

\* Faulty variant: only 401 is treated as non-retryable.
IsNonRetryable_Only401(error) ==
    error.status = 401

\* Faulty variant: only 400 is treated as non-retryable.
IsNonRetryable_Only400(error) ==
    error.status = 400

\* Faulty variant: every 4xx status is treated as non-retryable.
IsNonRetryable_Any4xx(error) ==
    error.status >= 400 /\ error.status < 500

\* error instanceof ToteatError && (error.status === 401 || error.status === 400)
IsNonRetryable(error) ==
    error.status = 401 \/ error.status = 400

\* Faulty variant: the catch block takes the attempt after the last one
\* for the last.
IsLastAttempt_Late(attempt, maxRetries) ==
    attempt = maxRetries

\* Faulty variant: the loop gives up one attempt early.
IsLastAttempt_Early(attempt, maxRetries) ==
    attempt >= maxRetries - 2

\* attempt === maxRetries - 1
IsLastAttempt(attempt, maxRetries) ==
    attempt = maxRetries - 1

\* Faulty variant: linear instead of exponential growth.
BackoffDelay_Linear(baseDelay, attempt) ==
    baseDelay * (2 * attempt + 1)

\* Faulty variant: the exponent counts attempts from one.
BackoffDelay_OffByOne(baseDelay, attempt) ==
    baseDelay * 2 ^ (attempt + 1)

\* Faulty variant: the wait is never shorter than the default duration a
\* rate-limited server asks for.
BackoffDelay_AtLeastRetryAfter(baseDelay, attempt) ==
    IF baseDelay * 2 ^ attempt < DefaultRetryAfter * MsPerSecond
    THEN DefaultRetryAfter * MsPerSecond
    ELSE baseDelay * 2 ^ attempt

\* baseDelay * Math.pow(2, attempt)
BackoffDelay(baseDelay, attempt) ==
    baseDelay * 2 ^ attempt

\* Events a frame logs: an invocation of fn (via: what the operation did,
\* "fetch" = issued a request), a rejection of fn, a backoff wait.
Invoke(via) == [k |-> "invoke", via |-> via, ms |-> 0, err |-> Undefined]
Reject(error) == [k |-> "reject", via |-> "", ms |-> 0, err |-> error]
Wait(ms) == [k |-> "wait", via |-> "", ms |-> ms, err |-> Undefined]

NoValue == [kind |-> "none"]

\* A frame of fetchWithRetry that has not been entered.
LoopOff ==
    [pos |-> "off", attempt |-> 0, maxRetries |-> 0, baseDelay |-> 0,
     lastError |-> Undefined, trace |-> <<>>, value |-> NoValue,
     thrown |-> Undefined]

\* Entry of fetchWithRetry up to the first "await fn()": the loop test of
\* attempt 0, and the invocation of fn (which answers later).
LoopEnter(maxRetries, baseDelay, via) ==
    IF 0 < maxRetries
    THEN [LoopOff EXCEPT !.pos = "call", !.maxRetries = maxRetries,
                         !.baseDelay = baseDelay, !.trace = <<Invoke(via)>>]
    ELSE [LoopOff EXCEPT !.pos = "thrown", !.maxRetries = maxRetries,
                         !.baseDelay = baseDelay]

\* Faulty variant: the result is kept but fn is invoked once more.
LoopOnResolve_InvokesAgain(l, value) ==
    [l EXCEPT !.pos = "returned", !.value = value,
              !.trace = Append(l.trace, Invoke("fetch"))]

\* "return await fn()" when fn resolves.
LoopOnResolve(l, value) ==
    [l EXCEPT !.pos = "returned", !.value = value]

\* The catch block when fn rejects with error.
LoopOnReject(l, error) ==
    LET logged == [l EXCEPT !.lastError = error,
                            !.trace = Append(l.trace, Reject(error))]
    IN  IF IsNonRetryable(error) \/ IsLastAttempt(l.attempt, l.maxRetries)
        THEN [logged EXCEPT !.pos = "thrown", !.thrown = error]
        ELSE [logged EXCEPT !.pos = "wait",
                            !.trace = Append(logged.trace,
                                Wait(BackoffDelay(l.baseDelay, l.attempt)))]

\* The timer of the backoff fires: attempt++, the loop test, and the next
\* invocation of fn; "throw lastError" when the loop test fails.
LoopOnTimer(l, via) ==
    IF l.attempt + 1 < l.maxRetries
    THEN [l EXCEPT !.pos = "call", !.attempt = l.attempt + 1,
                   !.trace = Append(l.trace, Invoke(via))]
    ELSE [l EXCEPT !.pos = "thrown", !.attempt = l.attempt + 1,
                   !.thrown = l.lastError]

\* What a frame's log says.
Invocations(l) == SelectSeq(l.trace, LAMBDA e : e.k = "invoke")
Calls(l) == Len(Invocations(l))
Rejections(l) == SelectSeq(l.trace, LAMBDA e : e.k = "reject")
Raised(l) == [i \in 1..Len(Rejections(l)) |-> Rejections(l)[i].err]
WaitEvents(l) == SelectSeq(l.trace, LAMBDA e : e.k = "wait")
Waits(l) == [i \in 1..Len(WaitEvents(l)) |-> WaitEvents(l)[i].ms]

\* ------------------------------------------------------------ the catalog mapper

\* toeatGuid of an entry that carries none.
NoGuid == ""

\* const defaultBowlSizes
defaultBowlSizes ==
    << [id |-> "go", name |-> "Go 10/10", originalPrice |-> 6500,
        price |-> 5500, availability |-> TRUE, toeatGuid |-> NoGuid],
       [id |-> "tipico", name |-> "Tipico", originalPrice |-> 7600,
        price |-> 6500, availability |-> TRUE, toeatGuid |-> NoGuid],
       [id |-> "clasico", name |-> "Bowl Clasico de la Suerte",
        originalPrice |-> 9100, price |-> 7700, availability |-> TRUE,
        toeatGuid |-> NoGuid] >>

\* One entry of defaultToppings.
DefaultTopping(id, name, category) ==
    [id |-> id, name |-> name, category |-> category, availability |-> TRUE,
     toeatGuid |-> NoGuid]

\* const defaultToppings
defaultToppings ==
    << DefaultTopping("granola-crunchy", "Granola crunchy sin azucar", "Crunch"),
       DefaultTopping("granola-avena", "Granola avena miel", "Crunch"),
       DefaultTopping("cacao-nibs", "Cacao nibs", "Crunch"),
       DefaultTopping("banana", "Banana", "Frutas"),
       DefaultTopping("frutilla", "Frutilla", "Frutas"),
       DefaultTopping("arandanos", "Arandanos", "Frutas"),
       DefaultTopping("mango", "Mango", "Frutas"),
       DefaultTopping("kiwi", "Kiwi", "Frutas"),
       DefaultTopping("pina", "Pina", "Frutas"),
       DefaultTopping("miel", "Miel", "Dulces Naturales"),
       DefaultTopping("mantequilla-mani", "Mantequilla de mani",
                      "Dulces Naturales"),
       DefaultTopping("mantequilla-pistachos", "Mantequilla de pistachos",
                      "Dulces Naturales") >>

\* One entry of PRODUCT_MAPPINGS.
Mapping(dailyAcaiId, toeatGuid, category) ==
    [dailyAcaiId |-> dailyAcaiId, toeatGuid |-> toeatGuid,
     category |-> category]

\* Faulty variant: the entry of tipico carries the remote identifier of go.
PRODUCT_MAPPINGS_SharedGuid ==
    << Mapping("go", "PLACEHOLDER_GUID_GO_10_10", "bowl_size"),
       Mapping("tipico", "PLACEHOLDER_GUID_GO_10_10", "bowl_size"),
       Mapping("clasico", "PLACEHOLDER_GUID_CLASICO", "bowl_size"),
       Mapping("granola-crunchy", "PLACEHOLDER_GUID_GRANOLA_CRUNCHY", "topping"),
       Mapping("granola-avena", "PLACEHOLDER_GUID_GRANOLA_AVENA", "topping"),
       Mapping("cacao-nibs", "PLACEHOLDER_GUID_CACAO_NIBS", "topping"),
       Mapping("banana", "PLACEHOLDER_GUID_BANANA", "topping"),
       Mapping("frutilla", "PLACEHOLDER_GUID_FRUTILLA", "topping"),
       Mapping("arandanos", "PLACEHOLDER_GUID_ARANDANOS", "topping"),
       Mapping("mango", "PLACEHOLDER_GUID_MANGO", "topping"),
       Mapping("kiwi", "PLACEHOLDER_GUID_KIWI", "topping"),
       Mapping("pina", "PLACEHOLDER_GUID_PINA", "topping"),
       Mapping("miel", "PLACEHOLDER_GUID_MIEL", "topping"),
       Mapping("mantequilla-mani", "PLACEHOLDER_GUID_MANTEQUILLA_MANI",
               "topping"),
       Mapping("mantequilla-pistachos",
               "PLACEHOLDER_GUID_MANTEQUILLA_PISTACHOS", "topping") >>

\* export const PRODUCT_MAPPINGS
PRODUCT_MAPPINGS ==
    << Mapping("go", "PLACEHOLDER_GUID_GO_10_10", "bowl_size"),
       Mapping("tipico", "PLACEHOLDER_GUID_TIPICO", "bowl_size"),
       Mapping("clasico", "PLACEHOLDER_GUID_CLASICO", "bowl_size"),
       Mapping("granola-crunchy", "PLACEHOLDER_GUID_GRANOLA_CRUNCHY", "topping"),
       Mapping("granola-avena", "PLACEHOLDER_GUID_GRANOLA_AVENA", "topping"),
       Mapping("cacao-nibs", "PLACEHOLDER_GUID_CACAO_NIBS", "topping"),
       Mapping("banana", "PLACEHOLDER_GUID_BANANA", "topping"),
       Mapping("frutilla", "PLACEHOLDER_GUID_FRUTILLA", "topping"),
       Mapping("arandanos", "PLACEHOLDER_GUID_ARANDANOS", "topping"),
       Mapping("mango", "PLACEHOLDER_GUID_MANGO", "topping"),
       Mapping("kiwi", "PLACEHOLDER_GUID_KIWI", "topping"),
       Mapping("pina", "PLACEHOLDER_GUID_PINA", "topping"),
       Mapping("miel", "PLACEHOLDER_GUID_MIEL", "topping"),
       Mapping("mantequilla-mani", "PLACEHOLDER_GUID_MANTEQUILLA_MANI",
               "topping"),
       Mapping("mantequilla-pistachos",
               "PLACEHOLDER_GUID_MANTEQUILLA_PISTACHOS", "topping") >>

\* Array.prototype.find: the index of the first element of seq that is in
\* the set hits, 0 when there is none.
FindIndex(seq, hits) ==
    IF \E i \in 1..Len(seq) : seq[i] \in hits
    THEN CHOOSE i \in 1..Len(seq) :
            seq[i] \in hits /\ \A j \in 1..(i - 1) : seq[j] \notin hits
    ELSE 0

\* array.find(x => x.guid === guid)
FindGuid(seq, guid) ==
    FindIndex(seq, {seq[i] : i \in {j \in 1..Len(seq) : seq[j].guid = guid}})

\* PRODUCT_MAPPINGS.find(m => m.dailyAcaiId === id && m.category === category)
FindMapping(id, category) ==
    FindIndex(PRODUCT_MAPPINGS,
              {PRODUCT_MAPPINGS[i] :
                 i \in {j \in 1..Len(PRODUCT_MAPPINGS) :
                          /\ PRODUCT_MAPPINGS[j].dailyAcaiId = id
                          /\ PRODUCT_MAPPINGS[j].category = category}})

\* Faulty variant: the discounted price is cut off, not rounded.
DiscountedPrice_Truncates(originalPrice) ==
    (85 * originalPrice) \div 100

\* dailyAcaiId of a lookup that finds nothing (undefined).
NoId == ""

\* export const getToeatGuid = (dailyAcaiId) =>
\*   PRODUCT_MAPPINGS.find(m => m.dailyAcaiId === dailyAcaiId)?.toeatGuid
getToeatGuid(dailyAcaiId) ==
    LET i == FindIndex(PRODUCT_MAPPINGS,
                       {PRODUCT_MAPPINGS[k] :
                          k \in {j \in 1..Len(PRODUCT_MAPPINGS) :
                                   PRODUCT_MAPPINGS[j].dailyAcaiId
                                       = dailyAcaiId}})
    IN  IF i = 0 THEN NoGuid ELSE PRODUCT_MAPPINGS[i].toeatGuid

\* export const getDailyAcaiId = (toeatGuid) =>
\*   PRODUCT_MAPPINGS.find(m => m.toeatGuid === toeatGuid)?.dailyAcaiId
getDailyAcaiId(toeatGuid) ==
    LET i == FindIndex(PRODUCT_MAPPINGS,
                       {PRODUCT_MAPPINGS[k] :
                          k \in {j \in 1..Len(PRODUCT_MAPPINGS) :
                                   PRODUCT_MAPPINGS[j].toeatGuid = toeatGuid}})
    IN  IF i = 0 THEN NoId ELSE PRODUCT_MAPPINGS[i].dailyAcaiId

\* Math.round(originalPrice * 0.85) for an integer price.
DiscountedPrice(originalPrice) ==
    (85 * originalPrice + 50) \div 100

\* Faulty variant: only the status IN_STOCK counts as available.
AvailabilityOf_InStockOnly(inventory, guid) ==
    LET i == FindGuid(inventory, guid)
    IN  IF i = 0 THEN TRUE ELSE inventory[i].status = "IN_STOCK"

\* inventoryItem?.status !== "OUT_OF_STOCK" for the first inventory item
\* with the guid.
AvailabilityOf(inventory, guid) ==
    LET i == FindGuid(inventory, guid)
    IN  IF i = 0 THEN TRUE ELSE inventory[i].status # "OUT_OF_STOCK"

\* Faulty variant: the inventory is applied to an entry whose remote product
\* is not in the product list.
MapEntry_InventoryWithoutProduct(entry, category, toeatProducts, inventory) ==
    LET m == FindMapping(entry.id, category)
    IN  IF m = 0 THEN entry
        ELSE LET guid == PRODUCT_MAPPINGS[m].toeatGuid
                 p == FindGuid(toeatProducts, guid)
             IN  IF p = 0
                 THEN [entry EXCEPT
                         !.availability = AvailabilityOf(inventory, guid)]
                 ELSE IF category = "bowl_size"
                 THEN [entry EXCEPT
                         !.price = DiscountedPrice(toeatProducts[p].price),
                         !.originalPrice = toeatProducts[p].price,
                         !.availability = AvailabilityOf(inventory, guid),
                         !.toeatGuid = toeatProducts[p].guid]
                 ELSE [entry EXCEPT
                         !.availability = AvailabilityOf(inventory, guid),
                         !.toeatGuid = toeatProducts[p].guid]

\* Faulty variant: an add-on takes the remote product's price too.
MapEntry_PricesAddOns(entry, category, toeatProducts, inventory) ==
    LET m == FindMapping(entry.id, category)
    IN  IF m = 0 THEN entry
        ELSE LET guid == PRODUCT_MAPPINGS[m].toeatGuid
                 p == FindGuid(toeatProducts, guid)
             IN  IF p = 0 THEN entry
                 ELSE IF category = "bowl_size"
                 THEN [entry EXCEPT
                         !.price = DiscountedPrice(toeatProducts[p].price),
                         !.originalPrice = toeatProducts[p].price,
                         !.availability = AvailabilityOf(inventory, guid),
                         !.toeatGuid = toeatProducts[p].guid]
                 ELSE [id |-> entry.id, name |-> entry.name,
                       category |-> entry.category,
                       price |-> DiscountedPrice(toeatProducts[p].price),
                       availability |-> AvailabilityOf(inventory, guid),
                       toeatGuid |-> toeatProducts[p].guid]

\* The callback of defaultBowlSizes.map / defaultToppings.map.
MapEntry(entry, category, toeatProducts, inventory) ==
    LET m == FindMapping(entry.id, category)
    IN  IF m = 0 THEN entry
        ELSE LET guid == PRODUCT_MAPPINGS[m].toeatGuid
                 p == FindGuid(toeatProducts, guid)
             IN  IF p = 0 THEN entry
                 ELSE IF category = "bowl_size"
                 THEN [entry EXCEPT
                         !.price = DiscountedPrice(toeatProducts[p].price),
                         !.originalPrice = toeatProducts[p].price,
                         !.availability = AvailabilityOf(inventory, guid),
                         !.toeatGuid = toeatProducts[p].guid]
                 ELSE [entry EXCEPT
                         !.availability = AvailabilityOf(inventory, guid),
                         !.toeatGuid = toeatProducts[p].guid]

\* Faulty variant: entries that are not available are left out of the
\* output.
mapToeatProductsToBowlBuilder_FiltersUnavailable(toeatProducts, inventory) ==
    IF Len(toeatProducts) = 0
    THEN [bowlSizes |-> defaultBowlSizes, toppings |-> defaultToppings]
    ELSE [bowlSizes |->
            SelectSeq([i \in 1..Len(defaultBowlSizes) |->
                          MapEntry(defaultBowlSizes[i], "bowl_size",
                                   toeatProducts, inventory)],
                      LAMBDA e : e.availability),
          toppings |->
            SelectSeq([i \in 1..Len(defaultToppings) |->
                          MapEntry(defaultToppings[i], "topping",
                                   toeatProducts, inventory)],
                      LAMBDA e : e.availability)]

\* Faulty variant: the local defaults are shared between calls and changed
\* in place, so an entry that an earlier call found out of stock stays
\* unavailable.
mapToeatProductsToBowlBuilder_SharedDefaults(toeatProducts, inventory) ==
    LET fresh ==
            IF Len(toeatProducts) = 0
            THEN [bowlSizes |-> defaultBowlSizes, toppings |-> defaultToppings]
            ELSE [bowlSizes |->
                    [i \in 1..Len(defaultBowlSizes) |->
                        MapEntry(defaultBowlSizes[i], "bowl_size",
                                 toeatProducts, inventory)],
                  toppings |->
                    [i \in 1..Len(defaultToppings) |->
                        MapEntry(defaultToppings[i], "topping",
                                 toeatProducts, inventory)]]
    IN  IF mapper.calls = 0 THEN fresh
        ELSE [bowlSizes |->
                [i \in 1..Len(defaultBowlSizes) |->
                    [fresh.bowlSizes[i] EXCEPT !.availability =
                        @ /\ mapper.last.bowlSizes[i].availability]],
              toppings |->
                [i \in 1..Len(defaultToppings) |->
                    [fresh.toppings[i] EXCEPT !.availability =
                        @ /\ mapper.last.toppings[i].availability]]]

\* Faulty variant: with an empty product list the inventory is still
\* applied to the local catalog.
mapToeatProductsToBowlBuilder_InventoryFirst(toeatProducts, inventory) ==
    LET Stocked(entry, category) ==
            LET m == FindMapping(entry.id, category)
            IN  IF m = 0 THEN entry
                ELSE [entry EXCEPT !.availability =
                        AvailabilityOf(inventory,
                                       PRODUCT_MAPPINGS[m].toeatGuid)]
    IN  IF Len(toeatProducts) = 0
        THEN [bowlSizes |->
                [i \in 1..Len(defaultBowlSizes) |->
                    Stocked(defaultBowlSizes[i], "bowl_size")],
              toppings |->
                [i \in 1..Len(defaultToppings) |->
                    Stocked(defaultToppings[i], "topping")]]
        ELSE [bowlSizes |->
                [i \in 1..Len(defaultBowlSizes) |->
                    MapEntry(defaultBowlSizes[i], "bowl_size", toeatProducts,
                             inventory)],
              toppings |->
                [i \in 1..Len(defaultToppings) |->
                    MapEntry(defaultToppings[i], "topping", toeatProducts,
                             inventory)]]

\* export function mapToeatProductsToBowlBuilder(toeatProducts, inventory)
mapToeatProductsToBowlBuilder(toeatProducts, inventory) ==
    IF Len(toeatProducts) = 0
    THEN [bowlSizes |-> defaultBowlSizes, toppings |-> defaultToppings]
    ELSE [bowlSizes |->
            [i \in 1..Len(defaultBowlSizes) |->
                MapEntry(defaultBowlSizes[i], "bowl_size", toeatProducts,
                         inventory)],
          toppings |->
            [i \in 1..Len(defaultToppings) |->
                MapEntry(defaultToppings[i], "topping", toeatProducts,
                         inventory)]]

\* Answers of GET /api/products (data.products) the provider may give.
ProductLists ==
    { <<>>,
      << [guid |-> "PLACEHOLDER_GUID_GO_10_10", price |-> 6500],
         [guid |-> "PLACEHOLDER_GUID_BANANA", price |-> 0] >> }

\* Answers of GET /api/inventory (data.items) the provider may give.
InventoryLists ==
    { <<>>,
      << [guid |-> "PLACEHOLDER_GUID_GO_10_10", status |-> "OUT_OF_STOCK"],
         [guid |-> "PLACEHOLDER_GUID_BANANA", status |-> "QUANTITY"] >> }

\* ------------------------------------------------------------ authenticateWithToeat

\* Faulty variant: the cached token is served whatever its expiry.
CacheValid_IgnoresExpiry(token, expiry, t) ==
    token # NoToken /\ expiry # NoExpiry

\* Faulty variant: the cache is never used.
CacheValid_Never(token, expiry, t) ==
    FALSE

\* cachedToken && tokenExpiry && Date.now() < tokenExpiry
CacheValid(token, expiry, t) ==
    token # NoToken /\ expiry # NoExpiry /\ t < expiry

\* Faulty variant: the buffer is taken off in milliseconds, not seconds.
ExpiryOf_BufferInMs(t, expires_in) ==
    t + expires_in * MsPerSecond - ExpiryBufferSeconds

\* Faulty variant: the expiry is cached without the five-minute buffer.
ExpiryOf_NoBuffer(t, expires_in) ==
    t + expires_in * MsPerSecond

\* Date.now() + (data.expires_in - 300) * 1000
ExpiryOf(t, expires_in) ==
    t + (expires_in - ExpiryBufferSeconds) * MsPerSecond

\* Faulty variant: an expiry that is already cached is kept when a new token
\* is written.
CacheWrite_KeepsExpiry(data, t) ==
    [token |-> data.access_token,
     expiry |-> IF tokenExpiry # NoExpiry THEN tokenExpiry
                ELSE ExpiryOf(t, data.expires_in)]

\* cachedToken = data.access_token;
\* tokenExpiry = Date.now() + (data.expires_in - 300) * 1000;
\* both assignments run in one handler, after "await response.json()".
CacheWrite(data, t) ==
    [token |-> data.access_token, expiry |-> ExpiryOf(t, data.expires_in)]

\* Faulty variant: an error with status 401 clears the cache.
CacheOnError_ClearsOn401(error) ==
    IF error.status = 401
    THEN [token |-> NoToken, expiry |-> NoExpiry]
    ELSE [token |-> cachedToken, expiry |-> tokenExpiry]

\* The cache after a request has failed with error: the catch blocks of
\* authenticateWithToeat and of the fetchers rethrow and assign nothing.
CacheOnError(error) ==
    [token |-> cachedToken, expiry |-> tokenExpiry]

\* throw new ToteatError("Toeat API credentials not configured. ...", 401)
MissingCredentialsError(id) ==
    ToteatError("credentials not configured", 401, NoRetryAfter, id)

\* What a call of authenticateWithToeat does before it suspends: serve the
\* cache, fail on missing credentials, or issue the credential exchange.
AuthBranch ==
    IF CacheValid(cachedToken, tokenExpiry, now) THEN "cache"
    ELSE IF ~credentials THEN "config"
    ELSE "fetch"

TokenValue(token) == [kind |-> "token", token |-> token]

\* Faulty variant: only the first call of a frame looks into the cache.
AfterAuthInvoke_CacheOnFirstCallOnly(l) ==
    IF l.pos # "call" THEN l
    ELSE IF AuthBranch = "cache" /\ Calls(l) = 1
    THEN LoopOnResolve(l, TokenValue(cachedToken))
    ELSE IF AuthBranch = "config"
    THEN LoopOnReject(l, MissingCredentialsError(Calls(l)))
    ELSE l

\* The fetchWithRetry frame l, whose last event is an invocation of
\* authenticateWithToeat, once that call has run to its first suspension.
AfterAuthInvoke(l) ==
    IF l.pos # "call" THEN l
    ELSE IF AuthBranch = "cache" THEN LoopOnResolve(l, TokenValue(cachedToken))
    ELSE IF AuthBranch = "config"
    THEN LoopOnReject(l, MissingCredentialsError(Calls(l)))
    ELSE l

\* The errors a call of authenticateWithToeat (invocation id) throws for an
\* answer of POST /auth/token that is not ok, or for a network failure.
AuthErrors(env, id) ==
    {ToteatError("Authentication failed", s, NoRetryAfter, id) :
        s \in AuthFailStatuses(env)}
    \cup {ToteatError("Failed to authenticate", NoStatus, NoRetryAfter, id)}

\* ------------------------------------------------------------ the fetchers

Fetchers == {"shift", "inv", "prod"}

\* The errors getInventoryStatus, getProducts (429: a rate-limit error with
\* retryAfter) and getShiftStatus (no 429 case) throw on invocation id.
FetchErrors(env, o, id) ==
    {ToteatError("Failed to fetch", s, NoRetryAfter, id) :
        s \in IF o = "shift" THEN FetchFailStatuses(env)
              ELSE FetchFailStatuses(env) \ {429}}
    \cup {ToteatError("Rate limit exceeded", 429,
                      IF h = NoRetryAfter THEN DefaultRetryAfter ELSE h, id) :
            h \in IF o = "shift" \/ 429 \notin FetchFailStatuses(env) THEN {}
                  ELSE FetchRetryAfterHeaders(env)}
    \cup {ToteatError("request failed", NoStatus, NoRetryAfter, id)}

\* The values the fetchers resolve with.
FetchValues(env, o) ==
    IF o = "shift"
    THEN {[kind |-> "shift", is_open |-> b] :
            b \in IF env = "full" THEN BOOLEAN ELSE {TRUE}}
    ELSE IF o = "inv"
    THEN {[kind |-> "inv", items |-> i] :
            i \in IF env = "full" THEN InventoryLists ELSE {<<>>}}
    ELSE {[kind |-> "prod", products |-> p] :
            p \in IF env = "full" THEN ProductLists ELSE {<<>>}}

\* ------------------------------------------------------------ loadProductsFromToeat

NoResult == [kind |-> "none"]

\* The frame of loadProductsFromToeat before it is called.
CycleIdle ==
    [pc |-> "idle", token |-> NoToken, tokenVia |-> "",
     cachedOnRetry |-> FALSE, is_open |-> FALSE, result |-> NoResult,
     error |-> Undefined]

\* Faulty variant: the shift-status, inventory and product frames are all
\* entered as soon as authentication has returned.
LoopsAfter_AllAtOnce(loops, o, l) ==
    LET enter == LoopEnter(DefaultMaxRetries, DefaultBaseDelay, "fetch")
    IN  IF l.pos = "returned" /\ o = "auth"
        THEN [loops EXCEPT !["auth"] = LoopOff, !["shift"] = enter,
                           !["inv"] = enter, !["prod"] = enter]
        ELSE IF l.pos = "returned" /\ o = "shift"
        THEN [loops EXCEPT !["shift"] = LoopOff]
        ELSE [loops EXCEPT ![o] = l]

\* Faulty variant: the inventory and the product frame are entered only
\* when the shift status says that the point of sale is open.
LoopsAfter_GatedByOpen(loops, o, l) ==
    LET enter == LoopEnter(DefaultMaxRetries, DefaultBaseDelay, "fetch")
    IN  IF l.pos = "returned" /\ o = "auth"
        THEN [loops EXCEPT !["auth"] = LoopOff, !["shift"] = enter]
        ELSE IF l.pos = "returned" /\ o = "shift" /\ l.value.is_open
        THEN [loops EXCEPT !["shift"] = LoopOff, !["inv"] = enter,
                           !["prod"] = enter]
        ELSE IF l.pos = "returned" /\ o = "shift"
        THEN [loops EXCEPT !["shift"] = LoopOff]
        ELSE [loops EXCEPT ![o] = l]

\* Faulty variant: the next frames are entered when the frame before them
\* has ended, whether it returned or threw.
LoopsAfter_ContinueOnFailure(loops, o, l) ==
    LET enter == LoopEnter(DefaultMaxRetries, DefaultBaseDelay, "fetch")
    IN  IF l.pos = "returned" /\ o = "auth"
        THEN [loops EXCEPT !["auth"] = LoopOff, !["shift"] = enter]
        ELSE IF l.pos = "thrown" /\ o = "auth"
        THEN [loops EXCEPT !["auth"] = l, !["shift"] = enter]
        ELSE IF l.pos = "returned" /\ o = "shift"
        THEN [loops EXCEPT !["shift"] = LoopOff, !["inv"] = enter,
                           !["prod"] = enter]
        ELSE IF l.pos = "thrown" /\ o = "shift"
        THEN [loops EXCEPT !["shift"] = l, !["inv"] = enter,
                           !["prod"] = enter]
        ELSE [loops EXCEPT ![o] = l]

\* Faulty variant: when the inventory or the product fetch throws, the
\* frame of the other one is dropped.
LoopsAfter_CancelsSibling(loops, o, l) ==
    LET enter == LoopEnter(DefaultMaxRetries, DefaultBaseDelay, "fetch")
    IN  IF l.pos = "returned" /\ o = "auth"
        THEN [loops EXCEPT !["auth"] = LoopOff, !["shift"] = enter]
        ELSE IF l.pos = "returned" /\ o = "shift"
        THEN [loops EXCEPT !["shift"] = LoopOff, !["inv"] = enter,
                           !["prod"] = enter]
        ELSE IF l.pos = "thrown" /\ o = "inv"
        THEN [loops EXCEPT !["inv"] = l, !["prod"] = LoopOff]
        ELSE IF l.pos = "thrown" /\ o = "prod"
        THEN [loops EXCEPT !["prod"] = l, !["inv"] = LoopOff]
        ELSE [loops EXCEPT ![o] = l]

\* Faulty variant: a fetcher that is answered 401 makes the cycle
\* authenticate again.
LoopsAfter_ReauthOn401(loops, o, l) ==
    LET enter == LoopEnter(DefaultMaxRetries, DefaultBaseDelay, "fetch")
    IN  IF l.pos = "returned" /\ o = "auth"
        THEN [loops EXCEPT !["auth"] = LoopOff, !["shift"] = enter]
        ELSE IF l.pos = "returned" /\ o = "shift"
        THEN [loops EXCEPT !["shift"] = LoopOff, !["inv"] = enter,
                           !["prod"] = enter]
        ELSE IF l.pos = "thrown" /\ o # "auth" /\ l.thrown.status = 401
        THEN [loops EXCEPT ![o] = l, !["auth"] = enter]
        ELSE [loops EXCEPT ![o] = l]

\* The frames of fetchWithRetry of a cycle (loops) after the frame of
\* operation o became l: a returned authentication enters the shift-status
\* frame, a returned shift status enters the inventory and the product
\* frame (the frame that returned is gone).
LoopsAfter(loops, o, l) ==
    LET enter == LoopEnter(DefaultMaxRetries, DefaultBaseDelay, "fetch")
    IN  IF l.pos = "returned" /\ o = "auth"
        THEN [loops EXCEPT !["auth"] = LoopOff, !["shift"] = enter]
        ELSE IF l.pos = "returned" /\ o = "shift"
        THEN [loops EXCEPT !["shift"] = LoopOff, !["inv"] = enter,
                           !["prod"] = enter]
        ELSE [loops EXCEPT ![o] = l]

\* Faulty variant: the cycle resolves as soon as the first of the inventory
\* and the product fetch has returned, with an empty list for the other.
CycleAfter_FirstWins(fr, loops, o, l) ==
    IF fr.pc \notin {"auth", "shift", "catalog"} THEN fr
    ELSE IF l.pos = "thrown" THEN [fr EXCEPT !.pc = "rejected", !.error = l.thrown]
    ELSE IF l.pos # "returned" THEN fr
    ELSE IF o = "auth"
    THEN [fr EXCEPT !.pc = "shift", !.token = l.value.token,
                    !.tokenVia = l.trace[Len(l.trace)].via,
                    !.cachedOnRetry = (l.trace[Len(l.trace)].via = "cache"
                                         /\ Calls(l) > 1)]
    ELSE IF o = "shift"
    THEN [fr EXCEPT !.pc = "catalog", !.is_open = l.value.is_open]
    ELSE [fr EXCEPT
            !.pc = "resolved",
            !.result =
               [kind |-> "catalog",
                catalog |-> mapToeatProductsToBowlBuilder(
                                IF o = "prod" THEN l.value.products ELSE <<>>,
                                IF o = "inv" THEN l.value.items ELSE <<>>),
                isStoreOpen |-> fr.is_open,
                lastUpdated |-> now]]

\* Faulty variant: the result always says that the store is open.
CycleAfter_AlwaysOpen(fr, loops, o, l) ==
    IF fr.pc \notin {"auth", "shift", "catalog"} THEN fr
    ELSE IF l.pos = "thrown" THEN [fr EXCEPT !.pc = "rejected", !.error = l.thrown]
    ELSE IF l.pos # "returned" THEN fr
    ELSE IF o = "auth"
    THEN [fr EXCEPT !.pc = "shift", !.token = l.value.token,
                    !.tokenVia = l.trace[Len(l.trace)].via,
                    !.cachedOnRetry = (l.trace[Len(l.trace)].via = "cache"
                                         /\ Calls(l) > 1)]
    ELSE IF o = "shift"
    THEN [fr EXCEPT !.pc = "catalog", !.is_open = l.value.is_open]
    ELSE LET other == IF o = "inv" THEN loops["prod"] ELSE loops["inv"]
             inventory == IF o = "inv" THEN l.value.items ELSE other.value.items
             products ==
                 IF o = "prod" THEN l.value.products ELSE other.value.products
         IN  IF other.pos # "returned" THEN fr
             ELSE [fr EXCEPT
                     !.pc = "resolved",
                     !.result =
                        [kind |-> "catalog",
                         catalog |-> mapToeatProductsToBowlBuilder(products,
                                                                   inventory),
                         isStoreOpen |-> TRUE,
                         lastUpdated |-> now]]

\* The frame fr of loadProductsFromToeat of a cycle after the frame of
\* operation o became l (loops: the other frames of the cycle).  tokenVia
\* notes whether the call that returned the token served it from the cache
\* or exchanged the credentials for it, cachedOnRetry whether the call that
\* served it from the cache was a retry.
CycleAfter(fr, loops, o, l) ==
    IF fr.pc \notin {"auth", "shift", "catalog"} THEN fr
    ELSE IF l.pos = "thrown" THEN [fr EXCEPT !.pc = "rejected", !.error = l.thrown]
    ELSE IF l.pos # "returned" THEN fr
    ELSE IF o = "auth"
    THEN [fr EXCEPT !.pc = "shift", !.token = l.value.token,
                    !.tokenVia = l.trace[Len(l.trace)].via,
                    !.cachedOnRetry = (l.trace[Len(l.trace)].via = "cache"
                                         /\ Calls(l) > 1)]
    ELSE IF o = "shift"
    THEN [fr EXCEPT !.pc = "catalog", !.is_open = l.value.is_open]
    ELSE LET other == IF o = "inv" THEN loops["prod"] ELSE loops["inv"]
             inventory == IF o = "inv" THEN l.value.items ELSE other.value.items
             products ==
                 IF o = "prod" THEN l.value.products ELSE other.value.products
         IN  IF other.pos # "returned" THEN fr
             ELSE [fr EXCEPT
                     !.pc = "resolved",
                     !.result =
                        [kind |-> "catalog",
                         catalog |-> mapToeatProductsToBowlBuilder(products,
                                                                   inventory),
                         isStoreOpen |-> fr.is_open,
                         lastUpdated |-> now]]

\* No call of the mapper on its own has been made.
MapperOff ==
    [calls |-> 0, products |-> <<>>, inventory |-> <<>>,
     output |-> NoResult, between |-> NoResult, again |-> NoResult,
     last |-> NoResult]

\* The BowlBuilder component is not mounted.  oddToggles is history: the
\* add-ons that toggleTopping was called for an odd number of times.
BuilderOff ==
    [mounted |-> FALSE, selectedSize |-> "", selectedToppings |-> <<>>,
     lastToggled |-> "", oddToggles |-> {}]

InitCommon ==
    /\ cachedToken = NoToken
    /\ tokenExpiry = NoExpiry
    /\ credentials \in BOOLEAN
    /\ now = StartTime
    /\ cycle = [c \in Cycles |-> CycleIdle]
    /\ loop = [c \in Cycles |-> [o \in Ops |-> LoopOff]]
    /\ issued = 0
    /\ lastResponse = [access_token |-> NoToken, expires_in |-> 0, at |-> 0]
    /\ started = 0

Quiet(c) == \A o \in Ops : loop[c][o].pos \notin {"call", "wait"}

\* loadProductsFromToeat() is called: fetchWithRetry is entered with
\* authenticateWithToeat, which runs to its first suspension.
StartCycle(c) ==
    /\ started < MaxStarts
    /\ cycle[c].pc \in {"idle", "resolved", "rejected"}
    /\ Quiet(c)
    /\ LET l == AfterAuthInvoke(LoopEnter(DefaultMaxRetries,
                                          DefaultBaseDelay, AuthBranch))
           loops == LoopsAfter([o \in Ops |-> LoopOff], "auth", l)
       IN  /\ loop' = [loop EXCEPT ![c] = loops]
           /\ cycle' = [cycle EXCEPT ![c] =
                   CycleAfter([CycleIdle EXCEPT !.pc = "auth"], loops, "auth", l)]
    /\ started' = started + 1
    /\ UNCHANGED <<cachedToken, tokenExpiry, credentials, now, exec, issued,
                   lastResponse, mapper, builder>>

\* POST /auth/token answers ok: the token is cached and returned.
AuthRespondOk(c, env) ==
    /\ loop[c]["auth"].pos = "call"
    /\ \E expires_in \in ExpiresInChoices(env) :
          LET token == issued + 1
              data == [access_token |-> token, expires_in |-> expires_in]
              l == LoopOnResolve(loop[c]["auth"], TokenValue(token))
              loops == LoopsAfter(loop[c], "auth", l)
          IN  /\ cachedToken' = CacheWrite(data, now).token
              /\ tokenExpiry' = CacheWrite(data, now).expiry
              /\ issued' = token
              /\ lastResponse' = [access_token |-> token,
                                  expires_in |-> expires_in, at |-> now]
              /\ loop' = [loop EXCEPT ![c] = loops]
              /\ cycle' = [cycle EXCEPT ![c] =
                              CycleAfter(cycle[c], loops, "auth", l)]
    /\ UNCHANGED <<credentials, now, exec, started, mapper, builder>>

\* POST /auth/token answers not ok, or the request fails.
AuthRespondFail(c, env) ==
    /\ loop[c]["auth"].pos = "call"
    /\ \E error \in AuthErrors(env, Calls(loop[c]["auth"])) :
          LET l == LoopOnReject(loop[c]["auth"], error)
              loops == LoopsAfter(loop[c], "auth", l)
          IN  /\ cachedToken' = CacheOnError(error).token
              /\ tokenExpiry' = CacheOnError(error).expiry
              /\ loop' = [loop EXCEPT ![c] = loops]
              /\ cycle' = [cycle EXCEPT ![c] =
                              CycleAfter(cycle[c], loops, "auth", l)]
    /\ UNCHANGED <<credentials, now, exec, issued, lastResponse, started,
                   mapper, builder>>

\* The backoff timer of the authentication frame fires:
\* authenticateWithToeat is called again.
AuthTimer(c) ==
    /\ loop[c]["auth"].pos = "wait"
    /\ LET l == AfterAuthInvoke(LoopOnTimer(loop[c]["auth"], AuthBranch))
           loops == LoopsAfter(loop[c], "auth", l)
       IN  /\ loop' = [loop EXCEPT ![c] = loops]
           /\ cycle' = [cycle EXCEPT ![c] =
                           CycleAfter(cycle[c], loops, "auth", l)]
    /\ UNCHANGED <<cachedToken, tokenExpiry, credentials, now, exec, issued,
                   lastResponse, started, mapper, builder>>

\* A fetcher's request answers ok.
FetchRespondOk(c, o, env) ==
    /\ loop[c][o].pos = "call"
    /\ \E value \in FetchValues(env, o) :
          LET l == LoopOnResolve(loop[c][o], value)
              loops == LoopsAfter(loop[c], o, l)
          IN  /\ loop' = [loop EXCEPT ![c] = loops]
              /\ cycle' = [cycle EXCEPT ![c] =
                              CycleAfter(cycle[c], loops, o, l)]
    /\ UNCHANGED <<cachedToken, tokenExpiry, credentials, now, exec, issued,
                   lastResponse, started, mapper, builder>>

\* A fetcher's request answers not ok, or fails.
FetchRespondFail(c, o, env) ==
    /\ loop[c][o].pos = "call"
    /\ \E error \in FetchErrors(env, o, Calls(loop[c][o])) :
          LET l == LoopOnReject(loop[c][o], error)
              loops == LoopsAfter(loop[c], o, l)
          IN  /\ cachedToken' = CacheOnError(error).token
              /\ tokenExpiry' = CacheOnError(error).expiry
              /\ loop' = [loop EXCEPT ![c] = loops]
              /\ cycle' = [cycle EXCEPT ![c] =
                              CycleAfter(cycle[c], loops, o, l)]
    /\ UNCHANGED <<credentials, now, exec, issued, lastResponse, started,
                   mapper, builder>>

\* The backoff timer of a fetcher's frame fires: the fetcher is called again.
FetchTimer(c, o) ==
    /\ loop[c][o].pos = "wait"
    /\ LET l == LoopOnTimer(loop[c][o], "fetch")
           loops == LoopsAfter(loop[c], o, l)
       IN  /\ loop' = [loop EXCEPT ![c] = loops]
           /\ cycle' = [cycle EXCEPT ![c] =
                           CycleAfter(cycle[c], loops, o, l)]
    /\ UNCHANGED <<cachedToken, tokenExpiry, credentials, now, exec, issued,
                   lastResponse, started, mapper, builder>>

\* Time passes.
Tick ==
    /\ now < StartTime + MaxTicks * TickMs
    /\ now' = now + TickMs
    /\ UNCHANGED <<cachedToken, tokenExpiry, credentials, cycle, loop, exec,
                   issued, lastResponse, started, mapper, builder>>

Init ==
    /\ InitCommon
    /\ exec = LoopOff
    /\ mapper = MapperOff
    /\ builder = BuilderOff

\* One load cycle at a time: a new call of loadProductsFromToeat is made
\* only when the previous one has settled and its requests have ended.
Next ==
    \/ \E c \in Solo : StartCycle(c)
    \/ \E c \in Solo : AuthRespondOk(c, "full")
    \/ \E c \in Solo : AuthRespondFail(c, "full")
    \/ \E c \in Solo : AuthTimer(c)
    \/ \E c \in Solo, o \in Fetchers : FetchRespondOk(c, o, "full")
    \/ \E c \in Solo, o \in Fetchers : FetchRespondFail(c, o, "full")
    \/ \E c \in Solo, o \in Fetchers : FetchTimer(c, o)
    \/ Tick

Spec == Init /\ [][Next]_vars

\* Overlapping load cycles: loadProductsFromToeat is called again while an
\* earlier call is still running (the timer and a manual refresh).
NextOverlap ==
    \/ \E c \in Cycles : StartCycle(c)
    \/ \E c \in Cycles : AuthRespondOk(c, "lean")
    \/ \E c \in Cycles : AuthRespondFail(c, "lean")
    \/ \E c \in Cycles : AuthTimer(c)
    \/ \E c \in Cycles, o \in Fetchers : FetchRespondOk(c, o, "lean")
    \/ \E c \in Cycles, o \in Fetchers : FetchRespondFail(c, o, "lean")
    \/ \E c \in Cycles, o \in Fetchers : FetchTimer(c, o)
    \/ Tick

SpecOverlap == Init /\ [][NextOverlap]_vars

\* One load cycle at a time with fewer kinds of answers, where a request
\* that is in flight is answered or fails at some time and a timer that was
\* set fires: as long as a request or a timer is pending, one of them takes
\* its step.
Answers ==
    \E c \in Solo :
       \/ AuthRespondOk(c, "lean")
       \/ AuthRespondFail(c, "lean")
       \/ AuthTimer(c)
       \/ \E o \in Fetchers :
             \/ FetchRespondOk(c, o, "lean")
             \/ FetchRespondFail(c, o, "lean")
             \/ FetchTimer(c, o)

NextLive ==
    \/ \E c \in Solo : StartCycle(c)
    \/ Answers
    \/ Tick

SpecLive == Init /\ [][NextLive]_vars /\ WF_vars(Answers)

\* ------------------------------------------------------------ the stand-alone executor

\* The errors an arbitrary operation may reject with on invocation id.
OperationErrors(id) ==
    {ToteatError("http", s, NoRetryAfter, id) : s \in FailStatuses \ {429}}
    \cup {ToteatError("rate limit", 429, r, id) : r \in {DefaultRetryAfter, 5}}
    \cup {ToteatError("network", NoStatus, NoRetryAfter, id)}

\* fetchWithRetry(fn, maxRetries, baseDelay) has been called.
InitRetry ==
    /\ InitCommon
    /\ \E m \in 0..MaxAttemptsBound, d \in BaseDelays :
          exec = LoopEnter(m, d, "fetch")
    /\ mapper = MapperOff
    /\ builder = BuilderOff

\* The pending invocation of fn resolves.
ExecResolve ==
    /\ exec.pos = "call"
    /\ exec' = LoopOnResolve(exec, [kind |-> "result", id |-> Calls(exec)])
    /\ UNCHANGED <<cachedToken, tokenExpiry, credentials, now, cycle, loop,
                   issued, lastResponse, started, mapper, builder>>

\* The pending invocation of fn rejects.
ExecReject ==
    /\ exec.pos = "call"
    /\ \E error \in OperationErrors(Calls(exec)) :
          exec' = LoopOnReject(exec, error)
    /\ UNCHANGED <<cachedToken, tokenExpiry, credentials, now, cycle, loop,
                   issued, lastResponse, started, mapper, builder>>

\* The backoff timer fires.
ExecTimer ==
    /\ exec.pos = "wait"
    /\ exec' = LoopOnTimer(exec, "fetch")
    /\ UNCHANGED <<cachedToken, tokenExpiry, credentials, now, cycle, loop,
                   issued, lastResponse, started, mapper, builder>>

NextRetry == ExecResolve \/ ExecReject \/ ExecTimer

SpecRetry == InitRetry /\ [][NextRetry]_vars

\* ------------------------------------------------------------ the mapper on its own

\* Remote products the product list of a call is drawn from: two answers
\* for the size go, one for the size tipico, one for the add-on banana, and
\* a product no mapping entry names.
RemoteProducts ==
    { [guid |-> "PLACEHOLDER_GUID_GO_10_10", price |-> 6500],
      [guid |-> "PLACEHOLDER_GUID_GO_10_10", price |-> 6530],
      [guid |-> "PLACEHOLDER_GUID_TIPICO", price |-> 7590],
      [guid |-> "PLACEHOLDER_GUID_BANANA", price |-> 1200],
      [guid |-> "UNMAPPED_GUID", price |-> 990] }

\* Remote inventory items the inventory list of a call is drawn from.
RemoteItems ==
    { [guid |-> "PLACEHOLDER_GUID_GO_10_10", status |-> "OUT_OF_STOCK"],
      [guid |-> "PLACEHOLDER_GUID_GO_10_10", status |-> "IN_STOCK"],
      [guid |-> "PLACEHOLDER_GUID_BANANA", status |-> "QUANTITY"],
      [guid |-> "PLACEHOLDER_GUID_BANANA", status |-> "OUT_OF_STOCK"] }

\* The lists of at most MaxListLen different elements of the set S.
ListsOver(S) ==
    {s \in UNION {[1..n -> S] : n \in 0..MaxListLen} :
        \A i, j \in 1..Len(s) : i # j => s[i] # s[j]}

\* mapToeatProductsToBowlBuilder is about to be called with some lists.
InitMap ==
    /\ InitCommon
    /\ credentials
    /\ exec = LoopOff
    /\ builder = BuilderOff
    /\ \E p \in ListsOver(RemoteProducts), i \in ListsOver(RemoteItems) :
          mapper = [MapperOff EXCEPT !.products = p, !.inventory = i]

\* The call mapToeatProductsToBowlBuilder(products, inventory).
MapCall ==
    /\ mapper.calls = 0
    /\ LET out == mapToeatProductsToBowlBuilder(mapper.products,
                                                mapper.inventory)
       IN  mapper' = [mapper EXCEPT !.calls = 1, !.output = out, !.last = out]
    /\ UNCHANGED <<cachedToken, tokenExpiry, credentials, now, cycle, loop,
                   exec, issued, lastResponse, started, builder>>

\* Another call, with other lists.
MapOther ==
    /\ mapper.calls >= 1
    /\ mapper.between = NoResult
    /\ mapper.again = NoResult
    /\ \E p \in ProductLists, i \in InventoryLists :
          LET out == mapToeatProductsToBowlBuilder(p, i)
          IN  mapper' = [mapper EXCEPT !.calls = @ + 1, !.between = out,
                                       !.last = out]
    /\ UNCHANGED <<cachedToken, tokenExpiry, credentials, now, cycle, loop,
                   exec, issued, lastResponse, started, builder>>

\* A second call with the lists of the first call.
MapAgain ==
    /\ mapper.calls >= 1
    /\ mapper.again = NoResult
    /\ LET out == mapToeatProductsToBowlBuilder(mapper.products,
                                                mapper.inventory)
       IN  mapper' = [mapper EXCEPT !.calls = @ + 1, !.again = out,
                                    !.last = out]
    /\ UNCHANGED <<cachedToken, tokenExpiry, credentials, now, cycle, loop,
                   exec, issued, lastResponse, started, builder>>

NextMap == MapCall \/ MapOther \/ MapAgain

SpecMap == InitMap /\ [][NextMap]_vars

\* ------------------------------------------------------------ the BowlBuilder component

\* const bowlSizes of BowlBuilder.tsx
bowlSizes ==
    << [id |-> "go", name |-> "Go 10/10", originalPrice |-> 6500,
        price |-> 5500],
       [id |-> "tipico", name |-> "Tipico", originalPrice |-> 7600,
        price |-> 6500],
       [id |-> "clasico", name |-> "Bowl Clasico de la Suerte",
        originalPrice |-> 9100, price |-> 7700] >>

\* The names of const toppingsOptions of BowlBuilder.tsx
toppingsOptions ==
    << "Granola crunchy sin azucar", "Granola avena miel", "Cacao nibs",
       "Banana", "Frutilla", "Arandanos", "Mango", "Kiwi", "Pina", "Miel",
       "Mantequilla de mani", "Mantequilla de pistachos" >>

\* useState(null): no size is selected.
NoSize == ""
\* useState(null): no add-on was toggled lately.
NoTopping == ""

\* bowlSizes.find((bowl) => bowl.id === selectedSize): its index, 0 for
\* undefined.
selectedBowl(b) ==
    FindIndex(bowlSizes,
              {bowlSizes[k] :
                 k \in {j \in 1..Len(bowlSizes) :
                          bowlSizes[j].id = b.selectedSize}})

\* Faulty variant: each selected add-on adds to the total.
totalPrice_ChargesToppings(b) ==
    (IF selectedBowl(b) = 0 THEN 0 ELSE bowlSizes[selectedBowl(b)].price)
    + 500 * Len(b.selectedToppings)

\* const totalPrice = selectedBowl?.price || 0
totalPrice(b) ==
    IF selectedBowl(b) = 0 THEN 0 ELSE bowlSizes[selectedBowl(b)].price

\* const originalTotalPrice = selectedBowl?.originalPrice || 0
originalTotalPrice(b) ==
    IF selectedBowl(b) = 0 THEN 0 ELSE bowlSizes[selectedBowl(b)].originalPrice

\* const savings = originalTotalPrice - totalPrice
savings(b) ==
    originalTotalPrice(b) - totalPrice(b)

\* Faulty variant: the order button needs a size only.
isBowlComplete_SizeOnly(b) ==
    b.selectedSize # NoSize

\* const isBowlComplete = selectedSize && selectedToppings.length >= 1
isBowlComplete(b) ==
    b.selectedSize # NoSize /\ Len(b.selectedToppings) >= 1

\* The order button is on the page (it is rendered inside
\* "selectedSize && (...)") and is not disabled (disabled={!isBowlComplete}).
OrderButtonEnabled(b) ==
    b.selectedSize # NoSize /\ ~(~isBowlComplete(b))

\* prev.includes(topping)
Includes(prev, topping) ==
    \E i \in 1..Len(prev) : prev[i] = topping

\* Faulty variant: an add-on that is selected stays selected.
Toggled_NeverRemoves(prev, topping) ==
    IF Includes(prev, topping) THEN prev ELSE Append(prev, topping)

\* prev.includes(topping) ? prev.filter((t) => t !== topping)
\*                         : [...prev, topping]
Toggled(prev, topping) ==
    IF Includes(prev, topping)
    THEN SelectSeq(prev, LAMBDA t : t # topping)
    ELSE Append(prev, topping)

\* The component is mounted: the three useState calls.
InitBuilder ==
    /\ InitCommon
    /\ credentials
    /\ exec = LoopOff
    /\ mapper = MapperOff
    /\ builder = [mounted |-> TRUE, selectedSize |-> NoSize,
                  selectedToppings |-> <<>>, lastToggled |-> NoTopping,
                  oddToggles |-> {}]

\* onClick={() => setSelectedSize(bowl.id)} on the card of a size.
SetSelectedSize(id) ==
    /\ builder.mounted
    /\ builder' = [builder EXCEPT !.selectedSize = id]
    /\ UNCHANGED <<cachedToken, tokenExpiry, credentials, now, cycle, loop,
                   exec, issued, lastResponse, started, mapper>>

\* toggleTopping(topping), from the button of an add-on; the buttons are
\* rendered once a size is selected.
toggleTopping(topping) ==
    /\ builder.mounted
    /\ builder.selectedSize # NoSize
    /\ LET prev == builder.selectedToppings
       IN  /\ Includes(prev, topping) \/ Len(prev) < MaxSelected
           /\ builder' =
                 [builder EXCEPT
                    !.lastToggled = topping,
                    !.selectedToppings = Toggled(prev, topping),
                    !.oddToggles =
                        IF topping \in builder.oddToggles
                        THEN builder.oddToggles \ {topping}
                        ELSE builder.oddToggles \cup {topping}]
    /\ UNCHANGED <<cachedToken, tokenExpiry, credentials, now, cycle, loop,
                   exec, issued, lastResponse, started, mapper>>

\* setTimeout(() => setLastToggled(null), 300) fires.
ToggleTimer ==
    /\ builder.mounted
    /\ builder.lastToggled # NoTopping
    /\ builder' = [builder EXCEPT !.lastToggled = NoTopping]
    /\ UNCHANGED <<cachedToken, tokenExpiry, credentials, now, cycle, loop,
                   exec, issued, lastResponse, started, mapper>>

NextBuilder ==
    \/ \E i \in 1..Len(bowlSizes) : SetSelectedSize(bowlSizes[i].id)
    \/ \E i \in 1..Len(toppingsOptions) : toggleTopping(toppingsOptions[i])
    \/ ToggleTimer

SpecBuilder == InitBuilder /\ [][NextBuilder]_vars

\* ------------------------------------------------------------ claims on fetchWithRetry

AllRetryable(errors) ==
    \A i \in 1..Len(errors) : errors[i].status \notin {400, 401}

\* C2: for maxAttempts >= 1, an operation that fails with a retryable error
\* (status neither 400 nor 401) on every attempt is invoked exactly
\* maxAttempts times, and the error fetchWithRetry throws is the object the
\* last attempt raised, unmodified.
C2_RetryCeiling ==
    /\ Calls(exec) <= exec.maxRetries
    /\ (exec.maxRetries >= 1 /\ exec.pos = "thrown"
            /\ AllRetryable(Raised(exec)))
       => /\ Calls(exec) = exec.maxRetries
          /\ Len(Raised(exec)) = exec.maxRetries
          /\ exec.thrown = Raised(exec)[exec.maxRetries]
          /\ exec.thrown.id = exec.maxRetries
    /\ (AllRetryable(Raised(exec)) /\ Len(Raised(exec)) < exec.maxRetries)
       => exec.pos \in {"call", "wait", "returned"}

C2_Witness ==
    /\ exec.pos = "thrown"
    /\ exec.maxRetries = 3
    /\ Calls(exec) = 3
    /\ AllRetryable(Raised(exec))
    /\ exec.thrown.status = 429 /\ exec.thrown.id = 3

\* C3: an attempt that fails with status 401 or 400 ends fetchWithRetry at
\* once with that error: it is the last event of the frame, no invocation and
\* no wait follows it; a 401 on the first attempt means one invocation.
C3_NonRetryableShortCircuit ==
    \A i \in 1..Len(exec.trace) :
        (exec.trace[i].k = "reject" /\ exec.trace[i].err.status \in {400, 401})
        => /\ i = Len(exec.trace)
           /\ exec.pos = "thrown"
           /\ exec.thrown = exec.trace[i].err
           /\ Calls(exec) = exec.trace[i].err.id
           /\ Len(Waits(exec)) = Calls(exec) - 1
           /\ (i = 2 => Calls(exec) = 1)

C3_Witness ==
    /\ exec.maxRetries = 3
    /\ exec.trace = <<Invoke("fetch"),
                      Reject(ToteatError("http", 401, NoRetryAfter, 1))>>
    /\ exec.pos = "thrown"

\* C4: a failure that is not status 400 or 401, on an attempt that is not the
\* last one, is followed by a backoff wait and then by another attempt.
C4_RetryableIsRetried ==
    \A i \in 1..Len(exec.trace) :
        (/\ exec.trace[i].k = "reject"
         /\ exec.trace[i].err.status \notin {400, 401}
         /\ exec.trace[i].err.id < exec.maxRetries)
        => /\ Len(exec.trace) > i
           /\ exec.trace[i + 1].k = "wait"
           /\ \/ exec.pos = "wait" /\ Len(exec.trace) = i + 1
              \/ Len(exec.trace) > i + 1 /\ exec.trace[i + 2].k = "invoke"

C4_Witness ==
    /\ exec.maxRetries = 3
    /\ Len(exec.trace) >= 6
    /\ exec.trace[2].k = "reject" /\ exec.trace[2].err.status = 429
    /\ exec.trace[5].k = "reject" /\ exec.trace[5].err.status = NoStatus
    /\ exec.trace[6].k = "wait"
    /\ exec.pos = "call"

\* C5 as stated: the wait before attempt n (0-indexed) is baseDelay * 2^n, so
\* a fully failing run with maxAttempts = 3 and baseDelay = 1000 waits 1000,
\* 2000 and 4000 ms.
C5_Original ==
    /\ \A i \in 1..Len(Waits(exec)) :
          Waits(exec)[i] = exec.baseDelay * 2 ^ i
    /\ (exec.pos = "thrown" /\ exec.maxRetries = 3 /\ Calls(exec) = 3
            /\ exec.baseDelay = 1000)
       => Waits(exec) = <<1000, 2000, 4000>>

\* C5 (amended): the wait that follows failed attempt n (0-indexed), i.e. the
\* wait before attempt n + 1, is baseDelay * 2^n; there is no wait before
\* attempt 0 and none after the last attempt, so a run makes at most
\* maxAttempts - 1 waits.
C5_BackoffSchedule ==
    /\ \A i \in 1..Len(Waits(exec)) :
          Waits(exec)[i] = exec.baseDelay * 2 ^ (i - 1)
    /\ exec.maxRetries >= 1 => Len(Waits(exec)) <= exec.maxRetries - 1
    /\ Len(exec.trace) > 0 => exec.trace[1].k = "invoke"
    /\ (exec.pos = "thrown" /\ exec.maxRetries >= 1)
       => exec.trace[Len(exec.trace)].k = "reject"

C5_Witness ==
    /\ exec.maxRetries = 4 /\ exec.baseDelay = 250
    /\ exec.pos = "thrown"
    /\ Waits(exec) = <<250, 500, 1000>>

\* C6: with maxAttempts = 3, baseDelay = 1000 ms and three retryable failures
\* in a row, fetchWithRetry makes exactly three invocations separated by two
\* waits, 1000 ms then 2000 ms, none before the first invocation and none
\* after the third failure.
C6_ThreeFailures ==
    (exec.maxRetries = 3 /\ exec.baseDelay = 1000 /\ Len(Raised(exec)) = 3
        /\ AllRetryable(Raised(exec)))
    => /\ [i \in 1..Len(exec.trace) |-> exec.trace[i].k]
            = <<"invoke", "reject", "wait", "invoke", "reject", "wait",
                "invoke", "reject">>
       /\ Waits(exec) = <<1000, 2000>>
       /\ exec.pos = "thrown"
       /\ exec.thrown = Raised(exec)[3]

C6_Witness ==
    /\ exec.maxRetries = 3 /\ exec.baseDelay = 1000
    /\ Len(Raised(exec)) = 3 /\ AllRetryable(Raised(exec))
    /\ Raised(exec)[3].status = NoStatus
    /\ exec.pos = "thrown"

\* ------------------------------------------------------------ claims on loadProductsFromToeat

DefaultCatalog ==
    [bowlSizes |-> defaultBowlSizes, toppings |-> defaultToppings]

\* C1: whichever step of a load cycle fails terminally, loadProductsFromToeat
\* does not reject: it resolves with the local default catalog and a
\* non-null error.
C1_DegradeNeverReject ==
    \A c \in Cycles :
        (\E o \in Ops : loop[c][o].pos = "thrown")
        => /\ cycle[c].pc = "resolved"
           /\ cycle[c].result.kind = "catalog"
           /\ cycle[c].result.catalog = DefaultCatalog
           /\ cycle[c].error # Undefined

\* ------------------------------------------------------------ claims on authenticateWithToeat

\* A step in which cycle c calls authenticateWithToeat.
AuthCalled(c) == StartCycle(c) \/ AuthTimer(c)

\* A step in which a call of authenticateWithToeat returns a token to cycle c.
TokenReturned(c) == cycle[c].pc # "shift" /\ cycle'[c].pc = "shift"

\* After the step, a credential exchange of cycle c is in flight, issued by
\* this step's call.
ExchangeIssued(c) ==
    /\ loop'[c]["auth"].pos = "call"
    /\ loop'[c]["auth"].trace[Len(loop'[c]["auth"].trace)] = Invoke("fetch")
    /\ Calls(loop'[c]["auth"]) =
          IF cycle[c].pc = "auth" THEN Calls(loop[c]["auth"]) + 1 ELSE 1

\* The validity the provider's latest answer has left after the step, ms.
ValidityLeft ==
    lastResponse'.at + lastResponse'.expires_in * MsPerSecond - now'

\* C7: a call of authenticateWithToeat made after an earlier call has cached a
\* token, while the time is before the cached expiry, returns that same
\* token, exchanges no credentials and leaves the cache as it is.
C7_TokenReuse ==
    [][\A c \in Cycles :
          (AuthCalled(c) /\ cachedToken # NoToken /\ now < tokenExpiry)
          => /\ TokenReturned(c)
             /\ cycle'[c].token = lastResponse.access_token
             /\ cycle'[c].token = cachedToken
             /\ loop'[c]["auth"].pos # "call"
             /\ issued' = issued
             /\ UNCHANGED <<cachedToken, tokenExpiry, lastResponse>>]_vars

C7_Witness ==
    /\ started = 2
    /\ issued = 1
    /\ cycle["c1"].pc = "shift"
    /\ cycle["c1"].tokenVia = "cache"
    /\ cycle["c1"].token = 1
    /\ now > lastResponse.at /\ now < tokenExpiry

\* C8 as stated: a call made when no token is cached, or at or past the
\* cached expiry, performs exactly one credential exchange, whose success
\* overwrites the cached token and expiry with that exchange's values.
C8_Original ==
    [][/\ \A c \in Cycles :
             (AuthCalled(c) /\ (cachedToken = NoToken \/ now >= tokenExpiry))
             => ExchangeIssued(c)
       /\ lastResponse' # lastResponse
          => /\ cachedToken' = lastResponse'.access_token
             /\ tokenExpiry' = now + (lastResponse'.expires_in - 300) * 1000]_vars

\* C8 (amended): when the client identifier and secret are configured, a
\* call made when no token is cached, or at or past the cached expiry,
\* performs exactly one credential exchange, whose success overwrites the
\* cached token and expiry with that exchange's values.
C8_ExchangeWhenStale ==
    [][/\ \A c \in Cycles :
             (/\ AuthCalled(c)
              /\ credentials
              /\ (cachedToken = NoToken \/ now >= tokenExpiry))
             => ExchangeIssued(c)
       /\ lastResponse' # lastResponse
          => /\ cachedToken' = lastResponse'.access_token
             /\ tokenExpiry' = now + (lastResponse'.expires_in - 300) * 1000]_vars

C8_Witness ==
    /\ started = 2
    /\ issued = 2
    /\ cachedToken = 2
    /\ lastResponse.expires_in = 500
    /\ tokenExpiry = now + 200000
    /\ now = StartTime + 2 * TickMs

\* C9 as stated: every token authenticateWithToeat returns, cached or fresh,
\* has at least 300 seconds of validity left when it is returned.
C9_Original ==
    [][\A c \in Cycles :
          TokenReturned(c) => ValidityLeft >= 300 * 1000]_vars

\* C9 (amended): a token served from the cache has more than 300 seconds of
\* validity left when it is returned; a freshly exchanged token is returned
\* with the provider's whole lifetime expires_in, which is at least 300
\* seconds only when expires_in >= 300.
C9_SafetyMargin ==
    [][\A c \in Cycles :
          TokenReturned(c)
          => /\ cycle'[c].token = lastResponse'.access_token
             /\ IF cycle'[c].tokenVia = "cache"
                THEN ValidityLeft > 300 * 1000
                ELSE ValidityLeft = lastResponse'.expires_in * 1000]_vars

C9_Witness ==
    /\ cycle["c1"].pc = "shift"
    /\ cycle["c1"].tokenVia = "cache"
    /\ loop["c1"]["shift"].trace = <<Invoke("fetch")>>
    /\ lastResponse.at + lastResponse.expires_in * 1000 - now = 400000

\* C10: overlapping callers of authenticateWithToeat share one credential
\* exchange: at no time is more than one exchange in flight.
C10_SingleExchangeInFlight ==
    Cardinality({c \in Cycles : loop[c]["auth"].pos = "call"}) <= 1

\* C11: under any interleaving of overlapping load cycles, cachedToken and
\* tokenExpiry are either both unset or both set, to the token and the expiry
\* derived from one and the same exchange response (the latest one written);
\* the token of one exchange is never paired with the expiry of another.
C11_CacheConsistent ==
    \/ /\ cachedToken = NoToken
       /\ tokenExpiry = NoExpiry
       /\ issued = 0
    \/ /\ cachedToken # NoToken
       /\ tokenExpiry # NoExpiry
       /\ cachedToken = lastResponse.access_token
       /\ tokenExpiry =
             lastResponse.at + (lastResponse.expires_in - 300) * 1000

\* The second of two overlapping exchanges is still in flight while the
\* cache holds the first one's token, valid.
C11_Witness ==
    /\ cachedToken = 1
    /\ now < tokenExpiry
    /\ cycle["c1"].token = 1 /\ cycle["c1"].tokenVia = "fetch"
    /\ loop["c2"]["auth"].pos = "call"
    /\ loop["c1"]["shift"].pos = "call"

\* ------------------------------------------------------------ claims on the order of a load cycle

\* C12: within one load cycle no shift-status request is issued before
\* authentication has succeeded (the cycle holds a token and the
\* authentication frame has returned), and no inventory or product request
\* is issued before the shift-status fetch has succeeded (the cycle has
\* moved past the shift-status step and that frame has returned).
C12_CallOrder ==
    \A c \in Cycles :
        /\ cycle[c].pc = "auth"
           => \A o \in Fetchers : Calls(loop[c][o]) = 0
        /\ cycle[c].pc = "shift"
           => Calls(loop[c]["inv"]) = 0 /\ Calls(loop[c]["prod"]) = 0
        /\ Calls(loop[c]["shift"]) > 0
           => /\ loop[c]["auth"] = LoopOff
              /\ cycle[c].token \in 1..issued
              /\ cycle[c].tokenVia \in {"cache", "fetch"}
        /\ (Calls(loop[c]["inv"]) > 0 \/ Calls(loop[c]["prod"]) > 0)
           => /\ loop[c]["auth"] = LoopOff
              /\ loop[c]["shift"] = LoopOff
              /\ cycle[c].token \in 1..issued
              /\ \/ cycle[c].pc \in {"catalog", "resolved"}
                 \/ /\ cycle[c].pc = "rejected"
                    /\ \E o \in {"inv", "prod"} :
                          /\ loop[c][o].pos = "thrown"
                          /\ cycle[c].error = loop[c][o].thrown

\* The token came from an exchange, the shift status has returned, the
\* inventory request is in flight and the product request is in its second
\* attempt.
C12_Witness ==
    /\ cycle["c1"].pc = "catalog"
    /\ cycle["c1"].tokenVia = "fetch"
    /\ Calls(loop["c1"]["inv"]) = 1 /\ loop["c1"]["inv"].pos = "call"
    /\ Calls(loop["c1"]["prod"]) = 2 /\ loop["c1"]["prod"].pos = "call"

\* C13: a load cycle resolves only after both the inventory and the product
\* fetch have returned; mapToeatProductsToBowlBuilder is applied only then,
\* and the result is the mapper's value for the two lists, whichever of the
\* two fetches returned first.
C13_BothBeforeReady ==
    \A c \in Cycles :
        LET inv == loop[c]["inv"]
            prod == loop[c]["prod"]
        IN  /\ cycle[c].pc = "resolved"
               <=> (inv.pos = "returned" /\ prod.pos = "returned")
            /\ cycle[c].pc # "resolved" => cycle[c].result = NoResult
            /\ cycle[c].pc = "resolved"
               => /\ cycle[c].result.kind = "catalog"
                  /\ cycle[c].result.catalog =
                        mapToeatProductsToBowlBuilder(prod.value.products,
                                                      inv.value.items)

\* Both fetches returned non-empty lists, each after a failed first
\* attempt of its own, and the cycle resolved with the mapped catalog.
C13_Witness ==
    /\ cycle["c1"].pc = "resolved"
    /\ Len(loop["c1"]["inv"].value.items) = 2
    /\ Len(loop["c1"]["prod"].value.products) = 2
    /\ Calls(loop["c1"]["inv"]) = 2
    /\ Calls(loop["c1"]["prod"]) = 2
    /\ cycle["c1"].result.catalog.bowlSizes[1].availability = FALSE
    /\ cycle["c1"].result.catalog.bowlSizes[1].price = 5525

\* The shift-status fetch of cycle c has succeeded.
ShiftSucceeded(c) ==
    /\ cycle[c].pc \in {"catalog", "resolved", "rejected"}
    /\ loop[c]["auth"] = LoopOff
    /\ loop[c]["shift"] = LoopOff

\* C14 as stated: inventory and product requests are issued in a cycle only
\* if that cycle's shift-status fetch reported is_open = true.
C14_Original ==
    \A c \in Cycles :
        (Calls(loop[c]["inv"]) > 0 \/ Calls(loop[c]["prod"]) > 0)
        => cycle[c].is_open = TRUE

\* C14 (amended): the success of the shift-status fetch gates the catalog
\* load, not the value it reports: the inventory and the product request
\* are issued exactly when the shift-status fetch has succeeded, for
\* is_open = false as for is_open = true.
C14_ShiftSuccessGates ==
    \A c \in Cycles :
        /\ ShiftSucceeded(c)
           <=> (Calls(loop[c]["inv"]) > 0 /\ Calls(loop[c]["prod"]) > 0)
        /\ Calls(loop[c]["inv"]) > 0 <=> Calls(loop[c]["prod"]) > 0

\* The point of sale is reported closed, and both requests are in flight.
C14_Witness ==
    /\ cycle["c1"].pc = "catalog"
    /\ cycle["c1"].is_open = FALSE
    /\ loop["c1"]["inv"].trace = <<Invoke("fetch")>>
    /\ loop["c1"]["prod"].trace = <<Invoke("fetch")>>

\* C15: for every load cycle that resolves, the isStoreOpen flag of the
\* result equals the is_open value that the successful shift-status fetch
\* of that same cycle returned (the loader's local shiftStatus).
C15_StoreOpenFlag ==
    \A c \in Cycles :
        cycle[c].pc = "resolved"
        => /\ cycle[c].result.isStoreOpen \in BOOLEAN
           /\ cycle[c].result.isStoreOpen = cycle[c].is_open

\* The second load cycle resolved with a closed point of sale.
C15_Witness ==
    /\ started = 2
    /\ cycle["c1"].pc = "resolved"
    /\ cycle["c1"].is_open = FALSE
    /\ cycle["c1"].result.isStoreOpen = FALSE
    /\ cycle["c1"].tokenVia = "cache"

\* ------------------------------------------------------------ claims on errors

\* C16: when the client identifier or secret is not configured and no valid
\* token is cached, authenticateWithToeat fails without a network request,
\* fetchWithRetry makes exactly one attempt and no backoff wait, and the
\* load cycle ends in failure with no shift-status, inventory or product
\* request.
C16_MissingCredentials ==
    \A c \in Cycles :
        (/\ ~credentials
         /\ ~CacheValid(cachedToken, tokenExpiry, now)
         /\ cycle[c].pc # "idle")
        => LET auth == loop[c]["auth"]
           IN  /\ Len(auth.trace) = 2
               /\ auth.trace[1] = Invoke("config")
               /\ auth.trace[2].k = "reject"
               /\ auth.trace[2].err.status = 401
               /\ Calls(auth) = 1
               /\ Waits(auth) = <<>>
               /\ auth.pos = "thrown"
               /\ auth.thrown = auth.trace[2].err
               /\ issued = 0
               /\ \A o \in Fetchers : Calls(loop[c][o]) = 0
               /\ cycle[c].pc = "rejected"
               /\ cycle[c].error = auth.thrown

\* loadProductsFromToeat was called twice without credentials; the second
\* call failed like the first.
C16_Witness ==
    /\ ~credentials
    /\ cachedToken = NoToken
    /\ started = 2
    /\ cycle["c1"].pc = "rejected"
    /\ cycle["c1"].error.status = 401
    /\ Calls(loop["c1"]["auth"]) = 1

\* C17: each of the three fetchers (getInventoryStatus, getProducts,
\* getShiftStatus) fails on an HTTP 429 answer with a rate-limit error that
\* carries status 429 and a retryAfter equal to the Retry-After header, or
\* 60 when the header is absent.
C17_RateLimitError ==
    \A c \in Cycles, o \in Fetchers :
        \A i \in 1..Len(loop[c][o].trace) :
            LET e == loop[c][o].trace[i]
            IN  (e.k = "reject" /\ e.err.status = 429)
                => /\ e.err.msg = "Rate limit exceeded"
                   /\ e.err.retryAfter
                         \in {DefaultRetryAfter}
                             \cup (FetchRetryAfterHeaders("full")
                                      \ {NoRetryAfter})

\* Every answer the frame l has had so far is an HTTP 429.
AllRateLimited(l) ==
    /\ l.pos # "returned"
    /\ Len(Raised(l)) > 0
    /\ \A i \in 1..Len(Raised(l)) : Raised(l)[i].status = 429

\* C18 as stated: when a fetch answers 429 on every attempt until the
\* attempts are exhausted, the error that surfaces from fetchWithRetry to
\* the loader is a generic transport error, not the rate-limit error
\* (status 429 with retryAfter) of the last attempt.
C18_Original ==
    \A c \in Cycles, o \in Fetchers :
        (/\ AllRateLimited(loop[c][o])
         /\ Len(Raised(loop[c][o])) = loop[c][o].maxRetries)
        => /\ loop[c][o].pos = "thrown"
           /\ loop[c][o].thrown.status = NoStatus
           /\ loop[c][o].thrown.retryAfter = NoRetryAfter

\* C18 (amended): a 429 is retried while attempts are left; when a fetch
\* answers 429 on every attempt until the attempts are exhausted, the error
\* that surfaces from fetchWithRetry to the loader is the error the last
\* attempt raised, unchanged: status 429, with retryAfter for the inventory
\* and the product fetch, without it for the shift-status fetch.
C18_LastErrorSurfaces ==
    \A c \in Cycles, o \in Fetchers :
        LET l == loop[c][o]
        IN  AllRateLimited(l)
            => IF Len(Raised(l)) < l.maxRetries
               THEN l.pos \in {"wait", "call"}
               ELSE /\ l.pos = "thrown"
                    /\ l.thrown = Raised(l)[l.maxRetries]
                    /\ l.thrown.id = l.maxRetries
                    /\ l.thrown.status = 429
                    /\ l.thrown.retryAfter =
                          IF o = "shift" THEN NoRetryAfter
                          ELSE DefaultRetryAfter
                    /\ cycle[c].pc = "rejected"
                    /\ \E o2 \in Fetchers :
                          /\ loop[c][o2].pos = "thrown"
                          /\ cycle[c].error = loop[c][o2].thrown
                    /\ (\A o2 \in Fetchers \ {o} : loop[c][o2].pos # "thrown")
                       => cycle[c].error = l.thrown

\* The inventory fetch was answered 429 three times; its rate-limit error
\* is the error of the load cycle.
C18_Witness ==
    /\ AllRateLimited(loop["c1"]["inv"])
    /\ Len(Raised(loop["c1"]["inv"])) = 3
    /\ cycle["c1"].pc = "rejected"
    /\ cycle["c1"].error.status = 429
    /\ cycle["c1"].error.retryAfter = DefaultRetryAfter
    /\ cycle["c1"].error.id = 3
    /\ loop["c1"]["prod"].pos = "returned"
    /\ loop["c1"]["inv"].pos = "thrown"

\* C19: the wait fetchWithRetry inserts after a failed attempt depends only
\* on the attempt index and baseDelay: after a rate-limit error it is the
\* same exponential value whatever retryAfter the error carries (so it can
\* be shorter than the duration the server asked for).
C19_WaitIgnoresRetryAfter ==
    \A i \in 1..(Len(exec.trace) - 1) :
        exec.trace[i].k = "reject"
        => LET e == exec.trace[i].err
           IN  /\ exec.trace[i + 1].k = "wait"
               /\ exec.trace[i + 1].ms = exec.baseDelay * 2 ^ (e.id - 1)

\* A rate-limit error asking for 60 seconds was followed by a wait of 250
\* ms, one asking for 5 seconds by a wait of 500 ms.
C19_Witness ==
    /\ exec.baseDelay = 250
    /\ Len(exec.trace) >= 6
    /\ exec.trace[2].k = "reject"
    /\ exec.trace[2].err.retryAfter = DefaultRetryAfter
    /\ exec.trace[3] = Wait(250)
    /\ exec.trace[5].k = "reject"
    /\ exec.trace[5].err.retryAfter = 5
    /\ exec.trace[6] = Wait(500)
    /\ exec.trace[6].ms < exec.trace[5].err.retryAfter * MsPerSecond

\* ------------------------------------------------------------ claims on the catalog mapper

\* The compiled-in local catalog as the claim describes it.
IsLocalCatalog(catalog) ==
    /\ [i \in 1..Len(catalog.bowlSizes) |-> catalog.bowlSizes[i].id]
          = <<"go", "tipico", "clasico">>
    /\ [i \in 1..Len(catalog.bowlSizes) |-> catalog.bowlSizes[i].price]
          = <<5500, 6500, 7700>>
    /\ [i \in 1..Len(catalog.toppings) |-> catalog.toppings[i].id]
          = <<"granola-crunchy", "granola-avena", "cacao-nibs", "banana",
              "frutilla", "arandanos", "mango", "kiwi", "pina", "miel",
              "mantequilla-mani", "mantequilla-pistachos">>
    /\ \A i \in 1..Len(catalog.bowlSizes) :
          /\ catalog.bowlSizes[i].availability = TRUE
          /\ catalog.bowlSizes[i].toeatGuid = NoGuid
    /\ \A i \in 1..Len(catalog.toppings) :
          /\ catalog.toppings[i].availability = TRUE
          /\ catalog.toppings[i].toeatGuid = NoGuid
    /\ catalog = DefaultCatalog

\* C20: for an empty remote product list and any remote inventory list
\* (empty or not, with items marked OUT_OF_STOCK), the catalog
\* mapToeatProductsToBowlBuilder returns is exactly the compiled-in local
\* catalog: go, tipico, clasico at 5500, 6500, 7700 and the twelve add-ons,
\* every entry available, none with a remote identifier.
C20_EmptyProductsGiveLocalCatalog ==
    /\ \A inventory \in InventoryLists :
          IsLocalCatalog(mapToeatProductsToBowlBuilder(<<>>, inventory))
    /\ \A c \in Cycles :
          (/\ cycle[c].pc = "resolved"
           /\ loop[c]["prod"].value.products = <<>>)
          => IsLocalCatalog(cycle[c].result.catalog)

\* A cycle resolved with an empty product list and an inventory that marks
\* the size go as out of stock.
C20_Witness ==
    /\ cycle["c1"].pc = "resolved"
    /\ loop["c1"]["prod"].value.products = <<>>
    /\ Len(loop["c1"]["inv"].value.items) = 2
    /\ loop["c1"]["inv"].value.items[1].status = "OUT_OF_STOCK"
    /\ cycle["c1"].result.catalog.bowlSizes[1].availability = TRUE

\* The remote identifiers the mapping table gives for a local entry.
MappedGuids(id, category) ==
    {PRODUCT_MAPPINGS[k].toeatGuid :
        k \in {j \in 1..Len(PRODUCT_MAPPINGS) :
                 /\ PRODUCT_MAPPINGS[j].dailyAcaiId = id
                 /\ PRODUCT_MAPPINGS[j].category = category}}

\* The remote product of a local entry is in the product list.
ProductPresent(id, category, products) ==
    \E k \in 1..Len(products) : products[k].guid \in MappedGuids(id, category)

\* The first inventory item with a remote identifier of the local entry
\* says OUT_OF_STOCK.
FirstItemOutOfStock(id, category, inventory) ==
    \E k \in 1..Len(inventory) :
        /\ inventory[k].guid \in MappedGuids(id, category)
        /\ \A j \in 1..(k - 1) :
              inventory[j].guid \notin MappedGuids(id, category)
        /\ inventory[k].status = "OUT_OF_STOCK"

\* C21: for every local entry (size or add-on) whose mapped remote product
\* is in the product list, the output availability is false if and only if
\* the first inventory item with that remote identifier has status
\* OUT_OF_STOCK; IN_STOCK, QUANTITY and no such item give true.
C21_AvailabilityRule ==
    mapper.calls = 1
    => /\ \A i \in 1..Len(mapper.output.bowlSizes) :
             LET e == mapper.output.bowlSizes[i]
             IN  ProductPresent(e.id, "bowl_size", mapper.products)
                 => (e.availability = FALSE
                     <=> FirstItemOutOfStock(e.id, "bowl_size",
                                             mapper.inventory))
       /\ \A i \in 1..Len(mapper.output.toppings) :
             LET e == mapper.output.toppings[i]
             IN  ProductPresent(e.id, "topping", mapper.products)
                 => (e.availability = FALSE
                     <=> FirstItemOutOfStock(e.id, "topping",
                                             mapper.inventory))

\* go is out of stock by the first of two items for it, banana is available
\* with status QUANTITY, tipico has no inventory item.
C21_Witness ==
    /\ mapper.calls = 1
    /\ Len(mapper.products) = 3
    /\ mapper.inventory =
          << [guid |-> "PLACEHOLDER_GUID_GO_10_10", status |-> "OUT_OF_STOCK"],
             [guid |-> "PLACEHOLDER_GUID_GO_10_10", status |-> "IN_STOCK"],
             [guid |-> "PLACEHOLDER_GUID_BANANA", status |-> "QUANTITY"] >>
    /\ mapper.output.bowlSizes[1].availability = FALSE
    /\ mapper.output.bowlSizes[2].toeatGuid = "PLACEHOLDER_GUID_TIPICO"
    /\ mapper.output.bowlSizes[2].availability = TRUE
    /\ mapper.output.toppings[4].toeatGuid = "PLACEHOLDER_GUID_BANANA"
    /\ mapper.output.toppings[4].availability = TRUE

\* C22: for every size entry whose mapped remote product is in the product
\* list, with the integer remote price p (of the first product with the
\* identifier), the output has originalPrice = p and price = round(0.85 * p)
\* with halves rounded up, the integer (85 * p + 50) div 100; p = 6500 with
\* an OUT_OF_STOCK item gives price 5525, originalPrice 6500, availability
\* false.
C22_DiscountedPrice ==
    mapper.calls = 1
    => \A i \in 1..Len(mapper.output.bowlSizes) :
          LET e == mapper.output.bowlSizes[i]
              guids == MappedGuids(e.id, "bowl_size")
          IN  ProductPresent(e.id, "bowl_size", mapper.products)
              => \E k \in 1..Len(mapper.products) :
                    LET p == mapper.products[k].price
                    IN  /\ mapper.products[k].guid \in guids
                        /\ \A j \in 1..(k - 1) :
                              mapper.products[j].guid \notin guids
                        /\ e.originalPrice = p
                        /\ 100 * e.price - 50 <= 85 * p
                        /\ 85 * p < 100 * e.price + 50
                        /\ e.price = (85 * p + 50) \div 100
                        /\ (/\ p = 6500
                            /\ FirstItemOutOfStock(e.id, "bowl_size",
                                                   mapper.inventory))
                           => /\ e.price = 5525
                              /\ e.originalPrice = 6500
                              /\ e.availability = FALSE

\* go at 6500 and out of stock, ahead of a second product for go at 6530;
\* tipico at 7590, where 0.85 * p = 6451.5 is rounded up.
C22_Witness ==
    /\ mapper.calls = 1
    /\ mapper.products =
          << [guid |-> "PLACEHOLDER_GUID_GO_10_10", price |-> 6500],
             [guid |-> "PLACEHOLDER_GUID_GO_10_10", price |-> 6530],
             [guid |-> "PLACEHOLDER_GUID_TIPICO", price |-> 7590] >>
    /\ Len(mapper.inventory) = 1
    /\ mapper.output.bowlSizes[1].id = "go"
    /\ mapper.output.bowlSizes[1].price = 5525
    /\ mapper.output.bowlSizes[1].originalPrice = 6500
    /\ mapper.output.bowlSizes[1].availability = FALSE
    /\ mapper.output.bowlSizes[2].price = 6452
    /\ mapper.output.bowlSizes[2].originalPrice = 7590

\* C23: when the product list is not empty, every local entry that has no
\* mapping entry, or whose mapped remote identifier matches no remote
\* product, is in the output exactly as its local default (default prices,
\* available, no remote identifier), whatever the inventory list holds, an
\* OUT_OF_STOCK item with that identifier included; the output carries a
\* remote identifier exactly for the entries whose remote product was found.
C23_DefaultsStand ==
    (mapper.calls = 1 /\ Len(mapper.products) > 0)
    => /\ \A i \in 1..Len(defaultBowlSizes) :
             LET e == mapper.output.bowlSizes[i]
                 found == ProductPresent(defaultBowlSizes[i].id, "bowl_size",
                                         mapper.products)
             IN  /\ ~found => e = defaultBowlSizes[i]
                 /\ found <=> e.toeatGuid # NoGuid
                 /\ found
                    => e.toeatGuid \in MappedGuids(e.id, "bowl_size")
       /\ \A i \in 1..Len(defaultToppings) :
             LET e == mapper.output.toppings[i]
                 found == ProductPresent(defaultToppings[i].id, "topping",
                                         mapper.products)
             IN  /\ ~found => e = defaultToppings[i]
                 /\ found <=> e.toeatGuid # NoGuid
                 /\ found
                    => e.toeatGuid \in MappedGuids(e.id, "topping")

\* The product list names tipico and a product without mapping; the
\* inventory says OUT_OF_STOCK for go and for banana, whose products are
\* missing: go and banana stay as their defaults.
C23_Witness ==
    /\ mapper.calls = 1
    /\ mapper.products =
          << [guid |-> "UNMAPPED_GUID", price |-> 990],
             [guid |-> "PLACEHOLDER_GUID_TIPICO", price |-> 7590] >>
    /\ mapper.inventory =
          << [guid |-> "PLACEHOLDER_GUID_GO_10_10", status |-> "OUT_OF_STOCK"],
             [guid |-> "PLACEHOLDER_GUID_BANANA", status |-> "OUT_OF_STOCK"] >>
    /\ mapper.output.bowlSizes[1] = defaultBowlSizes[1]
    /\ mapper.output.toppings[4] = defaultToppings[4]
    /\ mapper.output.bowlSizes[2].toeatGuid = "PLACEHOLDER_GUID_TIPICO"

\* The rearrangements of a list of different elements.
Rearrangements(s) ==
    {t \in [1..Len(s) -> {s[i] : i \in 1..Len(s)}] :
        \A i \in 1..Len(s) : \E j \in 1..Len(s) : t[j] = s[i]}

\* No two elements of the list have the same remote identifier.
NoDuplicateGuid(s) ==
    \A i, j \in 1..Len(s) : i # j => s[i].guid # s[j].guid

C25_AddOnFrame ==
    mapper.calls = 1
    => \A i \in 1..Len(mapper.output.toppings) :
          LET e == mapper.output.toppings[i]
              d == defaultToppings[i]
          IN  ProductPresent(d.id, "topping", mapper.products)
              => /\ DOMAIN e = DOMAIN d
                 /\ "price" \notin DOMAIN e
                 /\ e.id = d.id /\ e.name = d.name /\ e.category = d.category
                 /\ e.toeatGuid \in MappedGuids(d.id, "topping")
                 /\ e.availability \in BOOLEAN
                 /\ \A f \in DOMAIN e \ {"availability", "toeatGuid"} :
                       e[f] = d[f]

\* banana has a remote product at 1200 and is out of stock.
C25_Witness ==
    /\ mapper.calls = 1
    /\ \E k \in 1..Len(mapper.products) :
          mapper.products[k] =
              [guid |-> "PLACEHOLDER_GUID_BANANA", price |-> 1200]
    /\ mapper.output.toppings[4].name = "Banana"
    /\ mapper.output.toppings[4].toeatGuid = "PLACEHOLDER_GUID_BANANA"
    /\ mapper.output.toppings[4].availability = FALSE
    /\ mapper.output.toppings[5] = defaultToppings[5]

C27_MappingTable ==
    LET M == PRODUCT_MAPPINGS
        N == 1..Len(PRODUCT_MAPPINGS)
    IN  /\ \A i, j \in N :
              i # j
              => /\ ~(/\ M[i].dailyAcaiId = M[j].dailyAcaiId
                      /\ M[i].category = M[j].category)
                 /\ M[i].toeatGuid # M[j].toeatGuid
        /\ \A i \in N :
              /\ Cardinality({j \in N : M[j].dailyAcaiId = M[i].dailyAcaiId})
                    = 1
              /\ Cardinality({j \in N : M[j].toeatGuid = M[i].toeatGuid}) = 1
              /\ getToeatGuid(M[i].dailyAcaiId) = M[i].toeatGuid
              /\ getDailyAcaiId(M[i].toeatGuid) = M[i].dailyAcaiId
              /\ getDailyAcaiId(getToeatGuid(M[i].dailyAcaiId))
                    = M[i].dailyAcaiId
              /\ getToeatGuid(getDailyAcaiId(M[i].toeatGuid)) = M[i].toeatGuid
        /\ \A i \in 1..Len(defaultBowlSizes) :
              Cardinality(MappedGuids(defaultBowlSizes[i].id, "bowl_size")) = 1
        /\ \A i \in 1..Len(defaultToppings) :
              Cardinality(MappedGuids(defaultToppings[i].id, "topping")) = 1
        /\ Len(defaultBowlSizes) = 3 /\ Len(defaultToppings) = 12
        /\ Len(M) = 15
        /\ mapper.calls = 1
           => /\ \A i \in 1..Len(mapper.output.bowlSizes) :
                    LET e == mapper.output.bowlSizes[i]
                    IN  e.toeatGuid # NoGuid
                        => /\ e.toeatGuid = getToeatGuid(e.id)
                           /\ getDailyAcaiId(e.toeatGuid) = e.id
              /\ \A i \in 1..Len(mapper.output.toppings) :
                    LET e == mapper.output.toppings[i]
                    IN  e.toeatGuid # NoGuid
                        => /\ e.toeatGuid = getToeatGuid(e.id)
                           /\ getDailyAcaiId(e.toeatGuid) = e.id

\* The mapper found go, tipico and banana; both lookups agree with the
\* identifiers in its output.
C27_Witness ==
    /\ mapper.calls = 1
    /\ mapper.output.bowlSizes[1].toeatGuid = getToeatGuid("go")
    /\ mapper.output.bowlSizes[2].toeatGuid = getToeatGuid("tipico")
    /\ getDailyAcaiId(mapper.output.toppings[4].toeatGuid) = "banana"
    /\ getDailyAcaiId("UNMAPPED_GUID") = NoId

\* ------------------------------------------------------------ claims on the BowlBuilder component

\* C28: in the bowl builder the total price equals the price of the size
\* that is selected (0 when none is), and the savings equal originalPrice
\* minus price of that size; selecting or deselecting add-ons, however
\* many, never changes the total.
C28_TotalIsSizePrice ==
    builder.mounted
    => /\ builder.selectedSize = NoSize
          => totalPrice(builder) = 0 /\ savings(builder) = 0
       /\ \A i \in 1..Len(bowlSizes) :
             builder.selectedSize = bowlSizes[i].id
             => /\ totalPrice(builder) = bowlSizes[i].price
                /\ savings(builder)
                      = bowlSizes[i].originalPrice - bowlSizes[i].price
       /\ totalPrice(builder) \in {0, 5500, 6500, 7700}
       /\ savings(builder) \in {0, 1000, 1100, 1400}
       /\ totalPrice(builder)
             = totalPrice([builder EXCEPT !.selectedToppings = <<>>])

\* tipico is selected, two add-ons are selected and Banana was the one
\* toggled last: the total is still the 6500 of tipico.
C28_Witness ==
    /\ builder.selectedSize = "tipico"
    /\ builder.selectedToppings = <<"Miel", "Banana">>
    /\ builder.lastToggled = "Banana"
    /\ totalPrice(builder) = 6500
    /\ savings(builder) = 1100

\* ------------------------------------------------------------ claims on the failure paths of a load cycle

\* A step in which a request of some frame fails or a frame gives up.
SomeFailure ==
    \E c \in Cycles, o \in Ops :
       \/ Len(Rejections(loop'[c][o])) > Len(Rejections(loop[c][o]))
       \/ loop[c][o].pos # "thrown" /\ loop'[c][o].pos = "thrown"

\* C29: the token cache is modified only by a successful credential
\* exchange: every step that changes cachedToken or tokenExpiry is the
\* arrival of an ok answer to POST /auth/token, whose token and expiry it
\* writes; a failed exchange, a failed shift-status, inventory or product
\* fetch (a 401 answer included) and retry exhaustion leave both unchanged,
\* so a cached token is never cleared.
C29_CacheOnlyBySuccess ==
    [][/\ (cachedToken' # cachedToken \/ tokenExpiry' # tokenExpiry)
          => /\ \E c \in Cycles :
                   /\ loop[c]["auth"].pos = "call"
                   /\ loop'[c]["auth"] = LoopOff
                   /\ loop'[c]["shift"].pos = "call"
             /\ lastResponse' # lastResponse
             /\ lastResponse'.at = now
             /\ cachedToken' = lastResponse'.access_token
             /\ cachedToken' # NoToken
             /\ tokenExpiry' = ExpiryOf(now, lastResponse'.expires_in)
       /\ SomeFailure => UNCHANGED <<cachedToken, tokenExpiry>>
       /\ cachedToken # NoToken => cachedToken' # NoToken
       /\ tokenExpiry # NoExpiry => tokenExpiry' # NoExpiry]_vars

\* The cache holds a token that is still valid, the cycle that fetched it
\* was then answered 401 by the shift-status fetch and is rejected.
C29_Witness ==
    /\ cachedToken # NoToken
    /\ now < tokenExpiry
    /\ cycle["c1"].pc = "rejected"
    /\ cycle["c1"].token = cachedToken
    /\ cycle["c1"].tokenVia = "fetch"
    /\ cycle["c1"].error.status = 401
    /\ loop["c1"]["shift"].pos = "thrown"

\* C30: if authentication fails terminally, the cycle issues no
\* shift-status, inventory or product request; if the shift-status fetch
\* fails terminally, the cycle issues no inventory or product request.  In
\* both cases the cycle is rejected with the error that frame threw.
C30_FailureStopsCycle ==
    \A c \in Cycles :
       /\ loop[c]["auth"].pos = "thrown"
          => /\ \A o \in Fetchers :
                   loop[c][o] = LoopOff /\ Calls(loop[c][o]) = 0
             /\ cycle[c].pc = "rejected"
             /\ cycle[c].error = loop[c]["auth"].thrown
       /\ loop[c]["shift"].pos = "thrown"
          => /\ \A o \in {"inv", "prod"} :
                   loop[c][o] = LoopOff /\ Calls(loop[c][o]) = 0
             /\ cycle[c].pc = "rejected"
             /\ cycle[c].error = loop[c]["shift"].thrown

\* The shift-status fetch of a cycle that holds a token has failed on all
\* three attempts and the cycle is rejected.
C30_Witness ==
    /\ cycle["c1"].token # NoToken
    /\ loop["c1"]["shift"].pos = "thrown"
    /\ Calls(loop["c1"]["shift"]) = DefaultMaxRetries
    /\ cycle["c1"].pc = "rejected"
    /\ Calls(loop["c1"]["inv"]) = 0
    /\ Calls(loop["c1"]["prod"]) = 0

\* ------------------------------------------------------------ claims on the errors of authentication

\* C31: the error raised for missing credentials is distinguishable from
\* the error raised when the provider rejects the credentials: no error
\* that authenticateWithToeat raises for an answer of POST /auth/token that
\* is not ok carries the status code of the missing-credentials error.
C31_ConfigurationErrorDistinct ==
    \A c \in Cycles :
       \A i \in 1..Len(Raised(loop[c]["auth"])) :
          Raised(loop[c]["auth"])[i].msg = "Authentication failed"
          => Raised(loop[c]["auth"])[i].status
                # MissingCredentialsError(Raised(loop[c]["auth"])[i].id).status

\* ------------------------------------------------------------ claims on a success after retries

\* C32: when the operation given to fetchWithRetry first succeeds on its
\* k-th invocation (1 <= k <= maxAttempts) after k-1 retryable failures,
\* fetchWithRetry returns the result of that invocation, having invoked the
\* operation exactly k times and waited exactly k-1 times; the successful
\* invocation is the last event of the frame.
C32_SuccessAfterRetries ==
    exec.pos = "returned"
    => /\ exec.value.kind = "result"
       /\ exec.value.id \in 1..exec.maxRetries
       /\ Calls(exec) = exec.value.id
       /\ Len(Waits(exec)) = exec.value.id - 1
       /\ Len(Raised(exec)) = exec.value.id - 1
       /\ AllRetryable(Raised(exec))
       /\ \A i \in 1..Len(Raised(exec)) : Raised(exec)[i].id = i
       /\ exec.trace[Len(exec.trace)].k = "invoke"
       /\ Len(exec.trace) = 3 * (exec.value.id - 1) + 1

\* Success on the third of four allowed invocations, after a server error
\* and a rate-limit answer.
C32_Witness ==
    /\ exec.pos = "returned"
    /\ exec.maxRetries = 4
    /\ exec.value.id = 3
    /\ Calls(exec) = 3
    /\ Len(Waits(exec)) = 2
    /\ Raised(exec)[1].status = 500
    /\ Raised(exec)[2].status = 429

\* ------------------------------------------------------------ claims on termination

\* The requests a frame sent: the invocations of authenticateWithToeat that
\* served the cache or failed on missing credentials sent none.
RemoteCalls(l) ==
    Len(SelectSeq(l.trace, LAMBDA e : e.k = "invoke" /\ e.via = "fetch"))

\* C33: when every remote call answers or fails at some time, every load
\* cycle settles (resolves or rejects) at some time, and no operation is
\* attempted a fourth time: each of the four operations is invoked at most
\* 3 times and waits at most twice, at most 12 remote calls in all.
C33_CycleSettles ==
    /\ [](\A c \in Solo :
             /\ \A o \in Ops :
                   /\ Calls(loop[c][o]) <= 3
                   /\ Len(Waits(loop[c][o])) <= 2
             /\ RemoteCalls(loop[c]["auth"]) + RemoteCalls(loop[c]["shift"])
                + RemoteCalls(loop[c]["inv"]) + RemoteCalls(loop[c]["prod"])
                   <= 12)
    /\ \A c \in Solo :
          cycle[c].pc \in {"auth", "shift", "catalog"}
             ~> cycle[c].pc \in {"resolved", "rejected"}

\* A cycle has resolved although the inventory and the product fetch were
\* both attempted three times.
C33_Witness ==
    /\ cycle["c1"].pc = "resolved"
    /\ Calls(loop["c1"]["inv"]) = 3
    /\ Len(Waits(loop["c1"]["inv"])) = 2
    /\ Calls(loop["c1"]["prod"]) = 3
    /\ Len(Waits(loop["c1"]["prod"])) = 2

\* ------------------------------------------------------------ claims on the parallel fetches

\* The other one of the two parallel fetches.
Sibling(o) == IF o = "inv" THEN "prod" ELSE "inv"

\* C34: when one of the two parallel fetches (inventory, products) has
\* failed terminally, the load cycle is settled with a failure that such a
\* fetch threw and carries no result, whatever the other fetch does later;
\* the other fetch is not cancelled: its frame stays, its pending request
\* can still be answered and its backoff timer can still fire and issue
\* the next request.
C34_SiblingRunsOn ==
    \A c \in Solo, o \in {"inv", "prod"} :
       loop[c][o].pos = "thrown"
       => /\ cycle[c].pc = "rejected"
          /\ cycle[c].result = NoResult
          /\ cycle[c].error
                \in {loop[c][f].thrown :
                       f \in {g \in {"inv", "prod"} :
                                loop[c][g].pos = "thrown"}}
          /\ loop[c][Sibling(o)].pos \in {"call", "wait", "returned", "thrown"}
          /\ Calls(loop[c][Sibling(o)]) >= 1
          /\ loop[c][Sibling(o)].pos = "wait"
                => ENABLED FetchTimer(c, Sibling(o))
          /\ loop[c][Sibling(o)].pos = "call"
                => /\ ENABLED FetchRespondOk(c, Sibling(o), "full")
                   /\ ENABLED FetchRespondFail(c, Sibling(o), "full")

\* The inventory fetch was answered 401 on its first attempt and the cycle
\* is rejected with that error, while the product fetch is waiting in its
\* second backoff.
C34_Witness ==
    /\ loop["c1"]["inv"].pos = "thrown"
    /\ Calls(loop["c1"]["inv"]) = 1
    /\ cycle["c1"].pc = "rejected"
    /\ cycle["c1"].error = loop["c1"]["inv"].thrown
    /\ cycle["c1"].error.status = 401
    /\ loop["c1"]["prod"].pos = "wait"
    /\ Calls(loop["c1"]["prod"]) = 2

\* ------------------------------------------------------------ claims on the token of a load cycle

\* C35: within one load cycle the token obtained in the authentication step
\* is the one every later request of the cycle carries, retries included:
\* while a cycle holds a token no authentication frame is live in it and no
\* credential exchange has happened since the token was obtained (it is
\* still the token of the latest exchange answer), whatever failed since,
\* a 401 included; a cycle that was served from the cache holds the token
\* an earlier cycle's exchange had cached.
C35_OneTokenPerCycle ==
    \A c \in Solo :
       /\ cycle[c].token # NoToken
          => /\ loop[c]["auth"] = LoopOff
             /\ cycle[c].token = lastResponse.access_token
             /\ cycle[c].token = issued
             /\ cycle[c].token = cachedToken
       /\ cycle[c].token = NoToken
          => \A o \in Fetchers : Calls(loop[c][o]) = 0
       /\ cycle[c].tokenVia = "cache"
          => /\ started >= 2
             /\ issued < started
             /\ lastResponse.expires_in > ExpiryBufferSeconds

\* The second cycle was served the first cycle's token from the cache; its
\* inventory fetch was tried three times and its product fetch was
\* answered 401: one exchange in all.
C35_Witness ==
    /\ started = 2
    /\ issued = 1
    /\ cycle["c1"].tokenVia = "cache"
    /\ cycle["c1"].token = 1
    /\ Calls(loop["c1"]["inv"]) = 3
    /\ loop["c1"]["prod"].pos = "thrown"
    /\ loop["c1"]["prod"].thrown.status = 401

\* C36: when the provider's token lifetime expires_in is 300 seconds or
\* less, the cached expiry instant is not after the time of the exchange,
\* so the token is never served from the cache: a call of
\* authenticateWithToeat made at any later state exchanges the credentials
\* again.
C36_ShortLifetimeNeverCached ==
    (lastResponse.access_token # NoToken
       /\ lastResponse.expires_in <= ExpiryBufferSeconds)
    => /\ cachedToken = lastResponse.access_token
       /\ tokenExpiry <= lastResponse.at
       /\ ~CacheValid(cachedToken, tokenExpiry, now)
       /\ AuthBranch = "fetch"
       /\ \A c \in Solo : cycle[c].tokenVia # "cache"

\* The second cycle exchanged the credentials again at the very instant of
\* the first exchange, whose token had a lifetime of at most 300 seconds,
\* and was again given a lifetime of 300 seconds.
C36_Witness ==
    /\ started = 2
    /\ issued = 2
    /\ now = StartTime
    /\ cycle["c1"].tokenVia = "fetch"
    /\ cycle["c1"].token = 2
    /\ lastResponse.expires_in = 300
    /\ tokenExpiry = lastResponse.at

\* ------------------------------------------------------------ claims on a retried authentication

\* C37: each retry of the authentication step reads the token cache again:
\* when the backoff timer of a cycle's authentication frame fires while
\* the cache holds a token that is still valid (an overlapping cycle has
\* stored it since the failed exchange), the retry returns that token and
\* the cycle goes on to the shift status; no exchange is issued and the
\* cache stays as it is.
C37_RetryReadsCache ==
    [][\A c \in Cycles :
          (/\ loop[c]["auth"].pos = "wait"
           /\ loop'[c]["auth"] # loop[c]["auth"]
           /\ CacheValid(cachedToken, tokenExpiry, now))
          => /\ loop'[c]["auth"] = LoopOff
             /\ cycle'[c].pc = "shift"
             /\ cycle'[c].token = cachedToken
             /\ cycle'[c].tokenVia = "cache"
             /\ cycle'[c].cachedOnRetry
             /\ loop'[c]["shift"].pos = "call"
             /\ issued' = issued
             /\ UNCHANGED <<cachedToken, tokenExpiry, lastResponse>>]_vars

\* The first cycle's retry was served, from the cache, the token that the
\* second cycle's exchange had stored.
C37_Witness ==
    /\ cycle["c1"].cachedOnRetry
    /\ cycle["c1"].tokenVia = "cache"
    /\ cycle["c2"].tokenVia = "fetch"
    /\ cycle["c1"].token = cycle["c2"].token
    /\ issued = 1

SelectionOf(s) == {s[i] : i \in 1..Len(s)}

====
